---- MODULE Spec2Model ----
(***************************************************************************)
(* Model of the character-morphing scripts: the keyword mappers of         *)
(* second_script.py and blender_bridge.py, the morph applier, the bridge's *)
(* timer tick and the web frontend's file exchange with it.                *)
(*                                                                         *)
(* Conventions.  A prompt is a sequence of words; a word is the sequence   *)
(* of its hyphen-separated parts (<<"wide","set">> is "wide-set").  A      *)
(* Python dict is a sequence of <<key, value>> pairs in insertion order.   *)
(* Floats are counted in tenths (0.7 is 7).  A file is a sequence holding  *)
(* at most one document (<<>> when the file does not exist).  A parameter- *)
(* name template is a sequence of pieces, the placeholder being a piece.   *)
(***************************************************************************)
EXTENDS Integers, Sequences, FiniteSets, TLC

\* ------------------------------------------------------------------ bounds
MaxPromptLen == 3
MaxRequests == 3
MaxRuns == 2

\* --------------------------------------------------------- generic helpers
Min(a, b) == IF a < b THEN a ELSE b

Range(s) == {s[i] : i \in 1..Len(s)}

DictKeys(d) == {d[i][1] : i \in 1..Len(d)}

DictHas(d, k) == k \in DictKeys(d)

DictGet(d, k) == (CHOOSE i \in 1..Len(d) : d[i][1] = k) \* index of key k
DictVal(d, k) == d[DictGet(d, k)][2]

\* d[k] = v : an existing key keeps its position, a new key is appended
DictPut(d, k, v) ==
    IF DictHas(d, k) THEN [d EXCEPT ![DictGet(d, k)] = <<k, v>>]
    ELSE Append(d, <<k, v>>)

RECURSIVE DictUpdate(_, _)
DictUpdate(d, e) ==
    IF e = <<>> THEN d
    ELSE DictUpdate(DictPut(d, Head(e)[1], Head(e)[2]), Tail(e))

RECURSIVE Flatten(_)
Flatten(ss) == IF ss = <<>> THEN <<>> ELSE Head(ss) \o Flatten(Tail(ss))

\* ---------------------------------------------------------------- templates
ETH == "{ethnicity}"
PART == "{part}"

\* str.format(ethnicity=e) / str.format(part=p): the placeholder piece is
\* replaced, every other piece is copied
RECURSIVE Format(_, _, _)
Format(template, placeholder, value) ==
    IF template = <<>> THEN ""
    ELSE (IF Head(template) = placeholder THEN value ELSE Head(template))
         \o Format(Tail(template), placeholder, value)

\* "L2_{ethnicity}_<suffix>" and a template without placeholder
TE(suffix) == <<"L2_", ETH, suffix>>
TG(name) == <<name>>

\* ------------------------------------------------- tables: blender_bridge.py
B_DEFAULT_ETHNICITY == "Caucasian"
B_DEFAULT_GENDER == "male"
B_DEFAULT_VALUE == 7

B_CONCEPT_MAP ==
    ("caucasian" :> "Caucasian") @@ ("white" :> "Caucasian") @@ ("european" :> "Caucasian") @@
    ("asian" :> "Asian") @@ ("oriental" :> "Asian") @@ ("east-asian" :> "Asian") @@
    ("african" :> "African") @@ ("black" :> "African") @@ ("afro" :> "African") @@
    ("elf" :> "Elf") @@ ("elven" :> "Elf") @@ ("elvish" :> "Elf") @@
    ("dwarf" :> "Dwarf") @@ ("dwarven" :> "Dwarf")

B_FEATURE_MAP ==
    ("chin" :> (("long" :> <<TE("_Chin_SizeZ_max")>>) @@
                ("short" :> <<TE("_Chin_SizeZ_min")>>) @@
                ("wide" :> <<TE("_Chin_SizeX_max")>>) @@
                ("narrow" :> <<TE("_Chin_SizeX_min")>>) @@
                ("prominent" :> <<TE("_Chin_Prominence_max")>>) @@
                ("defined" :> <<TE("_Chin_Prominence_max")>>) @@
                ("strong" :> <<TE("_Chin_Prominence_max")>>) @@
                ("cleft" :> <<TE("_Chin_Cleft_max")>>))) @@
    ("jaw" :> (("strong" :> <<TE("_Jaw_Angle_min")>>) @@
               ("defined" :> <<TE("_Jaw_Angle_min")>>) @@
               ("angular" :> <<TE("_Jaw_Angle_min")>>) @@
               ("wide" :> <<TE("_Jaw_ScaleX_max")>>) @@
               ("narrow" :> <<TE("_Jaw_ScaleX_min")>>) @@
               ("soft" :> <<TE("_Jaw_Angle_max")>>))) @@
    ("eyes" :> (("big" :> <<TG("L2__Eyes_Size_max")>>) @@
                ("large" :> <<TG("L2__Eyes_Size_max")>>) @@
                ("small" :> <<TG("L2__Eyes_Size_min")>>) @@
                ("narrow" :> <<TG("L2__Eyes_Size_min")>>) @@
                ("wide-set" :> <<TE("_Eyes_PosX_max")>>) @@
                ("close-set" :> <<TE("_Eyes_PosX_min")>>) @@
                ("focused" :> <<TE("_Eyes_PosX_min")>>) @@
                ("sharp" :> <<TG("L2__Eyes_Size_min")>>) @@
                ("intense" :> <<TG("L2__Eyes_Size_min")>>))) @@
    ("nose" :> (("long" :> <<TE("_Nose_SizeY_max")>>) @@
                ("short" :> <<TE("_Nose_SizeY_min")>>) @@
                ("wide" :> <<TE("_Nose_BaseSizeX_max")>>) @@
                ("thin" :> <<TE("_Nose_BridgeSizeX_min")>>) @@
                ("refined" :> <<TE("_Nose_BridgeSizeX_min")>>) @@
                ("sharp" :> <<TE("_Nose_TipSize_min")>>) @@
                ("pointy" :> <<TE("_Nose_TipSize_min")>>))) @@
    ("lips" :> (("full" :> <<TE("_Mouth_UpperlipVolume_max"), TE("_Mouth_LowerlipVolume_max")>>) @@
                ("thin" :> <<TE("_Mouth_UpperlipVolume_min"), TE("_Mouth_LowerlipVolume_min")>>))) @@
    ("forehead" :> (("high" :> <<TE("_Forehead_SizeY_max")>>) @@
                    ("low" :> <<TE("_Forehead_SizeY_min")>>) @@
                    ("wide" :> <<TE("_Forehead_SizeX_max")>>))) @@
    ("ears" :> (("big" :> <<TE("_Ears_SizeX_max"), TE("_Ears_SizeY_max")>>) @@
                ("small" :> <<TE("_Ears_SizeX_min"), TE("_Ears_SizeY_min")>>) @@
                ("pointed" :> <<TG("L2__Fantasy_EarsPointed_max")>>)))

B_INTENSITY_MAP ==
    ("slightly" :> 3) @@ ("somewhat" :> 5) @@ ("moderately" :> 6) @@
    ("very" :> 8) @@ ("extremely" :> 9) @@ ("incredibly" :> 10)

\* trait -> its (feature part, modifier, intensity) entries in the order the
\* nested dicts list them; the "overall" entry carries a text, not modifiers
PERSONALITY_TO_FEATURES ==
    ("intelligent" :> << <<"forehead", "high", 7>>, <<"eyes", "focused", 6>>,
                         <<"eyes", "sharp", 7>>, <<"nose", "refined", 5>>,
                         <<"jaw", "defined", 6>> >>) @@
    ("wise" :> << <<"forehead", "high", 8>>, <<"eyes", "deep", 7>>,
                  <<"cheeks", "hollow", 4>>, <<"face", "aged", 5>> >>) @@
    ("strong" :> << <<"jaw", "strong", 8>>, <<"jaw", "wide", 6>>,
                    <<"chin", "prominent", 7>>, <<"cheeks", "defined", 6>>,
                    <<"neck", "thick", 5>> >>) @@
    ("gentle" :> << <<"eyes", "soft", 6>>, <<"eyes", "large", 5>>,
                    <<"lips", "full", 5>>, <<"face", "round", 4>>,
                    <<"jaw", "soft", 3>> >>) @@
    ("fierce" :> << <<"eyes", "narrow", 7>>, <<"eyes", "intense", 8>>,
                    <<"eyebrows", "thick", 6>>, <<"eyebrows", "low", 5>>,
                    <<"jaw", "angular", 7>>, <<"nose", "sharp", 6>> >>) @@
    ("kind" :> << <<"eyes", "warm", 6>>, <<"eyes", "crinkled", 4>>,
                  <<"mouth", "upturned", 5>>, <<"face", "soft", 5>> >>)

CONTEXTUAL_FEATURES ==
    ("businessman" :> << <<"overall", "professional", 0>>, <<"jaw", "clean", 6>>,
                         <<"hair", "neat", 8>>, <<"face", "confident", 7>> >>) @@
    ("athlete" :> << <<"overall", "fit", 0>>, <<"body", "muscular", 8>>,
                     <<"jaw", "strong", 7>>, <<"neck", "thick", 6>> >>) @@
    ("artist" :> << <<"overall", "creative", 0>>, <<"eyes", "expressive", 7>>,
                    <<"face", "unique", 5>>, <<"hair", "unconventional", 6>> >>)

AGE_MAPPINGS_KEYS == {"young", "old", "middle-aged"}

SYNONYM_MAP ==
    ("smart" :> "intelligent") @@ ("clever" :> "intelligent") @@
    ("bright" :> "intelligent") @@ ("sharp" :> "intelligent") @@
    ("powerful" :> "strong") @@ ("muscular" :> "strong") @@ ("robust" :> "strong") @@
    ("beautiful" :> "attractive") @@ ("handsome" :> "attractive") @@
    ("pretty" :> "attractive") @@
    ("elderly" :> "old") @@ ("senior" :> "old") @@
    ("youthful" :> "young") @@ ("teenage" :> "young")

GENDER_KEYWORDS ==
    [male |-> {"man", "male", "boy", "gentleman", "guy", "dude", "he", "him", "his"},
     female |-> {"woman", "female", "girl", "lady", "gal", "she", "her", "hers"}]

STOP_WORDS == {"a", "an", "the", "of", "with", "and", "or", "but", "in", "on",
               "at", "to", "for", "from"}

\* ------------------------------------------------------------ tokenization
\* str.lower() on the words of the vocabulary that carry capitals; every
\* other word of the vocabulary is lower-case already
UPPER_WORDS ==
    ("__STATUS_CHECK__" :> "__status_check__") @@ ("Asian" :> "asian")

Lower(part) == IF part \in DOMAIN UPPER_WORDS THEN UPPER_WORDS[part] ELSE part

LowerWord(word) == [i \in 1..Len(word) |-> Lower(word[i])]

\* the \w+ run of a part that carries punctuation; every other part of the
\* prompts is made of word characters only
PUNCTUATED == ("chin," :> "chin")

WordChars(part) == IF part \in DOMAIN PUNCTUATED THEN PUNCTUATED[part] ELSE part

\* a faulty variant: punctuation stays on the word
Letters_KeepsPunctuation(word) == LowerWord(word)

Letters(word) == [i \in 1..Len(word) |-> WordChars(Lower(word[i]))]

\* re.findall(r'\b\w+(?:-\w+)?\b') on one word: the parts are taken two by
\* two, each pair one token "p-q", a part left over a token by itself
RECURSIVE HyphenPairs(_)
HyphenPairs(parts) ==
    IF parts = <<>> THEN <<>>
    ELSE IF Len(parts) = 1 THEN <<parts[1]>>
    ELSE <<parts[1] \o "-" \o parts[2]>> \o HyphenPairs(SubSeq(parts, 3, Len(parts)))

RECURSIVE FindallHyphen(_)
FindallHyphen(prompt) ==
    IF prompt = <<>> THEN <<>>
    ELSE HyphenPairs(Letters(Head(prompt))) \o FindallHyphen(Tail(prompt))

\* a faulty variant: a hyphenated word stays one token
FindallWords_KeepsHyphen(prompt) == FindallHyphen(prompt)

\* re.findall(r'\b\w+\b') : every part is a token
RECURSIVE FindallWords(_)
FindallWords(prompt) ==
    IF prompt = <<>> THEN <<>>
    ELSE Letters(Head(prompt)) \o FindallWords(Tail(prompt))

RECURSIVE FilterOut(_, _)
FilterOut(words, drop) ==
    IF words = <<>> THEN <<>>
    ELSE (IF Head(words) \in drop THEN <<>> ELSE <<Head(words)>>)
         \o FilterOut(Tail(words), drop)

\* ------------------------------------------- blender_bridge.py: NLP functions
extract_keywords(prompt) == FilterOut(FindallHyphen(prompt), STOP_WORDS)

apply_synonyms(words) ==
    [i \in 1..Len(words) |->
        IF words[i] \in DOMAIN SYNONYM_MAP THEN SYNONYM_MAP[words[i]] ELSE words[i]]

RECURSIVE detect_personality_traits(_)
detect_personality_traits(words) ==
    IF words = <<>> THEN <<>>
    ELSE LET rest == detect_personality_traits(SubSeq(words, 1, Len(words) - 1))
             word == words[Len(words)]
         IN  IF word \in DOMAIN PERSONALITY_TO_FEATURES THEN DictPut(rest, word, 10)
             ELSE IF word \in DOMAIN CONTEXTUAL_FEATURES THEN DictPut(rest, word, 10)
             ELSE rest

\* changes[template.format(ethnicity=e)] = value, for each template in turn
RECURSIVE EmitTemplates(_, _, _, _)
EmitTemplates(changes, templates, ethnicity, value) ==
    IF templates = <<>> THEN changes
    ELSE EmitTemplates(DictPut(changes, Format(Head(templates), ETH, ethnicity), value),
                       Tail(templates), ethnicity, value)

\* the inner loops of map_traits_to_features over one trait's entries
RECURSIVE TraitEntries(_, _, _, _)
TraitEntries(changes, entries, intensity, ethnicity) ==
    IF entries = <<>> THEN changes
    ELSE LET feature_part == Head(entries)[1]
             modifier == Head(entries)[2]
             mod_intensity == Head(entries)[3]
             next ==
                 IF feature_part = "overall" THEN changes
                 ELSE IF feature_part \in DOMAIN B_FEATURE_MAP
                         /\ modifier \in DOMAIN B_FEATURE_MAP[feature_part]
                      THEN EmitTemplates(changes, B_FEATURE_MAP[feature_part][modifier],
                                         ethnicity, (mod_intensity * intensity) \div 10)
                      ELSE changes
         IN  TraitEntries(next, Tail(entries), intensity, ethnicity)

RECURSIVE TraitsLoop(_, _, _)
TraitsLoop(changes, traits, ethnicity) ==
    IF traits = <<>> THEN changes
    ELSE LET trait == Head(traits)[1]
             intensity == Head(traits)[2]
             next ==
                 IF trait \in DOMAIN PERSONALITY_TO_FEATURES
                 THEN TraitEntries(changes, PERSONALITY_TO_FEATURES[trait], intensity, ethnicity)
                 ELSE IF trait \in DOMAIN CONTEXTUAL_FEATURES
                 THEN TraitEntries(changes, CONTEXTUAL_FEATURES[trait], intensity, ethnicity)
                 ELSE changes
         IN  TraitsLoop(next, Tail(traits), ethnicity)

map_traits_to_features(traits, detected_ethnicity) ==
    TraitsLoop(<<>>, traits, detected_ethnicity)

\* the first element of words that is in keys, as a sequence of length <= 1
RECURSIVE FirstIn(_, _)
FirstIn(words, keys) ==
    IF words = <<>> THEN <<>>
    ELSE IF Head(words) \in keys THEN <<Head(words)>>
    ELSE FirstIn(Tail(words), keys)

smart_prompt_analysis(prompt) ==
    LET keywords == apply_synonyms(extract_keywords(prompt))
        concept == FirstIn(keywords, DOMAIN B_CONCEPT_MAP)
        gendered == FirstIn(keywords, GENDER_KEYWORDS.female \cup GENDER_KEYWORDS.male)
    IN  [ethnicity |-> IF concept = <<>> THEN B_DEFAULT_ETHNICITY
                       ELSE B_CONCEPT_MAP[concept[1]],
         gender |-> IF gendered = <<>> THEN B_DEFAULT_GENDER
                    ELSE IF gendered[1] \in GENDER_KEYWORDS.female THEN "female"
                    ELSE "male",
         personality_traits |-> detect_personality_traits(keywords),
         age_features |-> {k \in Range(keywords) : k \in AGE_MAPPINGS_KEYS},
         all_keywords |-> keywords]

\* -------------------------------------------------- Blender helper functions
\* An object's shape_keys is a sequence holding at most one key_blocks
\* function (name -> value); <<>> is an object whose mesh has no shape keys.

\* bpy.data.objects is a sequence of [name, shape_keys]; str.startswith over
\* the object names of the modelled scenes
NAME_STARTS ==
    ("mb_male" :> {"mb_male"}) @@ ("mb_male.001" :> {"mb_male"}) @@
    ("mb_female" :> {"mb_female"}) @@ ("Camera" :> {"Camera"})

StartsWith(objname, prefix) == prefix \in NAME_STARTS[objname]

\* index of the first object whose name starts with name, 0 for None
get_object(objects, name) ==
    IF \E i \in 1..Len(objects) : StartsWith(objects[i].name, name)
    THEN CHOOSE i \in 1..Len(objects) :
            /\ StartsWith(objects[i].name, name)
            /\ \A j \in 1..(i - 1) : ~StartsWith(objects[j].name, name)
    ELSE 0

\* a faulty variant: the reset is skipped (the changes are merged into the old values)
reset_character_shape_keys_Skipped(shape_keys) == shape_keys

reset_character_shape_keys(shape_keys) ==
    IF shape_keys = <<>> THEN shape_keys
    ELSE <<[kb \in DOMAIN shape_keys[1] |-> 0]>>

B_apply_morph(shape_keys, shape_key_name, value) ==
    IF shape_keys = <<>> THEN shape_keys
    ELSE IF shape_key_name \in DOMAIN shape_keys[1]
    THEN <<[shape_keys[1] EXCEPT ![shape_key_name] = Min(10, value)]>>
    ELSE shape_keys

S_apply_morph(shape_keys, shape_key_name, value) ==
    IF shape_keys = <<>> THEN shape_keys
    ELSE IF shape_key_name \in DOMAIN shape_keys[1]
    THEN <<[shape_keys[1] EXCEPT ![shape_key_name] = value]>>
    ELSE shape_keys

\* a faulty variant: a name that is not on the target ends the loop (the lookup raises)
RECURSIVE B_ApplyAll_StopsAtMiss(_, _)
B_ApplyAll_StopsAtMiss(shape_keys, changes) ==
    IF changes = <<>> \/ shape_keys = <<>> THEN shape_keys
    ELSE IF Head(changes)[1] \notin DOMAIN shape_keys[1] THEN shape_keys
    ELSE B_ApplyAll_StopsAtMiss(
             B_apply_morph(shape_keys, Head(changes)[1], Head(changes)[2]), Tail(changes))

\* for shape_key, value in changes_to_apply.items(): apply_morph(...)
RECURSIVE B_ApplyAll(_, _)
B_ApplyAll(shape_keys, changes) ==
    IF changes = <<>> THEN shape_keys
    ELSE B_ApplyAll(B_apply_morph(shape_keys, Head(changes)[1], Head(changes)[2]),
                    Tail(changes))

RECURSIVE S_ApplyAll(_, _)
S_ApplyAll(shape_keys, changes) ==
    IF changes = <<>> THEN shape_keys
    ELSE S_ApplyAll(S_apply_morph(shape_keys, Head(changes)[1], Head(changes)[2]),
                    Tail(changes))

\* ------------------------------ blender_bridge.py: the main processing function
\* Step 4, from token position i on (positions count from 1)
RECURSIVE B_FeatureLoop(_, _, _, _)
B_FeatureLoop(changes, words, i, ethnicity) ==
    IF i > Len(words) THEN changes
    ELSE LET word == words[i]
             hit == /\ word \in DOMAIN B_FEATURE_MAP
                    /\ i > 1
                    /\ words[i - 1] \in DOMAIN B_FEATURE_MAP[word]
             value == IF i > 2 /\ words[i - 2] \in DOMAIN B_INTENSITY_MAP
                      THEN B_INTENSITY_MAP[words[i - 2]]
                      ELSE B_DEFAULT_VALUE
         IN  B_FeatureLoop(
                 IF hit THEN EmitTemplates(changes, B_FEATURE_MAP[word][words[i - 1]],
                                           ethnicity, value)
                 ELSE changes,
                 words, i + 1, ethnicity)

\* a faulty variant: the category activation is emitted for the default category too
B_changes_to_apply_AlwaysCategory(prompt) ==
    LET analysis == smart_prompt_analysis(prompt)
        ethnicity == analysis.ethnicity
        step2 == <<<<"L1_" \o ethnicity, 10>>>>
        step3 == DictUpdate(step2,
                            map_traits_to_features(analysis.personality_traits, ethnicity))
    IN  B_FeatureLoop(step3, analysis.all_keywords, 1, ethnicity)

\* Steps 1 to 4: the change set computed for a prompt
B_changes_to_apply(prompt) ==
    LET analysis == smart_prompt_analysis(prompt)
        ethnicity == analysis.ethnicity
        step2 == IF ethnicity # B_DEFAULT_ETHNICITY
                 THEN <<<<"L1_" \o ethnicity, 10>>>>
                 ELSE <<>>
        step3 == DictUpdate(step2,
                            map_traits_to_features(analysis.personality_traits, ethnicity))
    IN  B_FeatureLoop(step3, analysis.all_keywords, 1, ethnicity)

\* a faulty variant: no reset, and each change is added to the key's current value
RECURSIVE AddAll(_, _)
AddAll(shape_keys, changes) ==
    IF changes = <<>> \/ shape_keys = <<>> THEN shape_keys
    ELSE LET name == Head(changes)[1] IN
         AddAll(IF name \in DOMAIN shape_keys[1]
                THEN <<[shape_keys[1] EXCEPT ![name] = Min(10, @ + Head(changes)[2])]>>
                ELSE shape_keys,
                Tail(changes))

process_and_apply_smart_prompt_Adds(prompt, shape_keys) ==
    AddAll(shape_keys, B_changes_to_apply(prompt))

process_and_apply_smart_prompt(prompt, shape_keys) ==
    LET cleared == reset_character_shape_keys(shape_keys)
        changes_to_apply == B_changes_to_apply(prompt)
    IN  IF changes_to_apply = <<>> THEN cleared
        ELSE B_ApplyAll(cleared, changes_to_apply)

\* --------------------------------------------------- tables: second_script.py
S_DEFAULT_ETHNICITY == "Caucasian"
S_DEFAULT_VALUE == 7
CONCEPT_SHAPE_KEY_PREFIX == "L1_"

S_CONCEPT_MAP ==
    << <<"caucasian", "Caucasian">>, <<"asian", "Asian">>, <<"african", "African">>,
       <<"elf", "Elf">>, <<"dwarf", "Dwarf">> >>

\* keyword -> its (template, value) entries
COMPOUND_MAP ==
    << <<"muscular", << <<<<"L2__", PART, "_Mass-Tone_min-max">>, 10>> >> >>,
       <<"toned", << <<<<"L2__", PART, "_Mass-Tone_min-max">>, 7>> >> >>,
       <<"skinny", << <<<<"L2__", PART, "_Mass-Tone_min-min">>, 8>> >> >>,
       <<"heavy", << <<<<"L2__", PART, "_Mass-Tone_max-min">>, 7>> >> >>,
       <<"fat", << <<<<"L2__", PART, "_Mass-Tone_max-min">>, 10>> >> >>,
       <<"bulky", << <<<<"L2__", PART, "_Mass-Tone_max-max">>, 8>> >> >> >>

COMPOUND_PARTS ==
    <<"Abdomen", "Arms_Upperarm", "Arms_Forearm", "Chest", "Legs_Upperlegs",
      "Legs_Lowerlegs", "Pelvis_Gluteus", "Shoulders">>

S_FEATURE_MAP ==
    ("chin" :> (("long" :> <<TE("_Chin_SizeZ_max")>>) @@
                ("short" :> <<TE("_Chin_SizeZ_min")>>) @@
                ("wide" :> <<TE("_Chin_SizeX_max")>>) @@
                ("narrow" :> <<TE("_Chin_SizeX_min")>>) @@
                ("prominent" :> <<TE("_Chin_Prominence_max")>>) @@
                ("cleft" :> <<TE("_Chin_Cleft_max")>>))) @@
    ("lips" :> (("full" :> <<TE("_Mouth_UpperlipVolume_max"), TE("_Mouth_LowerlipVolume_max")>>) @@
                ("thin" :> <<TE("_Mouth_UpperlipVolume_min"), TE("_Mouth_LowerlipVolume_min")>>))) @@
    ("eyes" :> (("big" :> <<TG("L2__Eyes_Size_max")>>) @@
                ("large" :> <<TG("L2__Eyes_Size_max")>>) @@
                ("small" :> <<TG("L2__Eyes_Size_min")>>) @@
                ("wide-set" :> <<TE("_Eyes_PosX_max")>>) @@
                ("narrow-set" :> <<TE("_Eyes_PosX_min")>>))) @@
    ("nose" :> (("long" :> <<TE("_Nose_SizeY_max")>>) @@
                ("short" :> <<TE("_Nose_SizeY_min")>>) @@
                ("wide" :> <<TE("_Nose_BaseSizeX_max")>>) @@
                ("thin" :> <<TE("_Nose_BridgeSizeX_min")>>) @@
                ("pointy" :> <<TE("_Nose_TipSize_min")>>) @@
                ("upturned" :> <<TE("_Nose_TipAngle_max")>>))) @@
    ("jaw" :> (("strong" :> <<TE("_Jaw_Angle_min")>>) @@
               ("wide" :> <<TE("_Jaw_ScaleX_max")>>) @@
               ("narrow" :> <<TE("_Jaw_ScaleX_min")>>))) @@
    ("ears" :> (("big" :> <<TE("_Ears_SizeX_max"), TE("_Ears_SizeY_max")>>) @@
                ("small" :> <<TE("_Ears_SizeX_min"), TE("_Ears_SizeY_min")>>) @@
                ("pointed" :> <<TG("L2__Fantasy_EarsPointed_max")>>))) @@
    ("shoulders" :> (("broad" :> <<TG("L2__Shoulders_SizeX_max")>>) @@
                     ("narrow" :> <<TG("L2__Shoulders_SizeX_min")>>))) @@
    ("waist" :> (("wide" :> <<TG("L2__Waist_Size_max")>>) @@
                 ("thin" :> <<TG("L2__Waist_Size_min")>>) @@
                 ("narrow" :> <<TG("L2__Waist_Size_min")>>))) @@
    ("torso" :> (("long" :> <<TG("L2__Torso_Length_max")>>) @@
                 ("short" :> <<TG("L2__Torso_Length_min")>>))) @@
    ("arms" :> (("long" :> <<TG("L2__Arms_UpperarmLength_max"), TG("L2__Arms_ForearmLength_max")>>) @@
                ("short" :> <<TG("L2__Arms_UpperarmLength_min"), TG("L2__Arms_ForearmLength_min")>>))) @@
    ("legs" :> (("long" :> <<TG("L2__Legs_UpperlegLength_max"), TG("L2__Legs_LowerlegLength_max")>>) @@
                ("short" :> <<TG("L2__Legs_UpperlegLength_min"), TG("L2__Legs_LowerlegLength_min")>>)))

S_INTENSITY_MAP ==
    ("slightly" :> 3) @@ ("somewhat" :> 5) @@ ("very" :> 9) @@ ("extremely" :> 10)

NEGATION_WORDS == {"no", "not", "without"}

\* modifier -> <<opposite>>, or <<>> for None
ANTONYM_MAP ==
    ("long" :> <<"short">>) @@ ("short" :> <<"long">>) @@ ("wide" :> <<"narrow">>) @@
    ("narrow" :> <<"wide">>) @@ ("big" :> <<"small">>) @@ ("large" :> <<"small">>) @@
    ("small" :> <<"big">>) @@ ("full" :> <<"thin">>) @@ ("thin" :> <<"full">>) @@
    ("broad" :> <<"narrow">>) @@ ("pointed" :> <<>>) @@ ("cleft" :> <<>>)

\* ------------------------------------------- second_script.py: the main logic
\* `next_word in part.lower()` is a substring test; the tokens of the
\* vocabulary that are substrings of a lower-cased body-part name, with the
\* parts that contain them (a token not listed is a substring of none)
PART_CONTAINS ==
    ("a" :> {"Abdomen", "Arms_Upperarm", "Arms_Forearm"}) @@
    ("or" :> {"Arms_Forearm"}) @@ ("for" :> {"Arms_Forearm"}) @@
    ("he" :> {"Chest"}) @@ ("chest" :> {"Chest"}) @@
    ("shoulders" :> {"Shoulders"}) @@ ("abdomen" :> {"Abdomen"}) @@
    ("arms" :> {"Arms_Upperarm", "Arms_Forearm"}) @@
    ("arm" :> {"Arms_Upperarm", "Arms_Forearm"}) @@
    ("legs" :> {"Legs_Upperlegs", "Legs_Lowerlegs"}) @@
    ("leg" :> {"Legs_Upperlegs", "Legs_Lowerlegs"}) @@
    ("pelvis" :> {"Pelvis_Gluteus"}) @@ ("gluteus" :> {"Pelvis_Gluteus"}) @@
    ("upperarm" :> {"Arms_Upperarm"}) @@ ("forearm" :> {"Arms_Forearm"}) @@
    ("upperlegs" :> {"Legs_Upperlegs"}) @@ ("lowerlegs" :> {"Legs_Lowerlegs"})

InPartLower(next_word, part) ==
    next_word \in DOMAIN PART_CONTAINS /\ part \in PART_CONTAINS[next_word]

\* Step 1: the first key of CONCEPT_MAP, in table order, found among the words
RECURSIVE S_FirstConcept(_, _)
S_FirstConcept(table, words) ==
    IF table = <<>> THEN <<>>
    ELSE IF Head(table)[1] \in Range(words) THEN <<Head(table)>>
    ELSE S_FirstConcept(Tail(table), words)

\* for template, val in morphs.items(): changes[template.format(part=part)] = val
RECURSIVE S_EmitMorphs(_, _, _)
S_EmitMorphs(changes, morphs, part) ==
    IF morphs = <<>> THEN changes
    ELSE S_EmitMorphs(DictPut(changes, Format(Head(morphs)[1], PART, part), Head(morphs)[2]),
                      Tail(morphs), part)

\* for part in COMPOUND_PARTS, from index p on; only_word = <<w>> keeps the
\* parts whose lower-cased name contains w, <<>> keeps every part
RECURSIVE S_PartsLoop(_, _, _, _)
S_PartsLoop(changes, morphs, p, only_word) ==
    IF p > Len(COMPOUND_PARTS) THEN changes
    ELSE LET part == COMPOUND_PARTS[p]
             take == only_word = <<>> \/ InPartLower(only_word[1], part)
         IN  S_PartsLoop(IF take THEN S_EmitMorphs(changes, morphs, part) ELSE changes,
                         morphs, p + 1, only_word)

\* for i, word in enumerate(words): the occurrences of keyword with a next word
RECURSIVE S_KeywordPositions(_, _, _, _, _)
S_KeywordPositions(changes, keyword, morphs, words, i) ==
    IF i > Len(words) THEN changes
    ELSE S_KeywordPositions(
             IF keyword = words[i] /\ i < Len(words)
             THEN S_PartsLoop(changes, morphs, 1, <<words[i + 1]>>)
             ELSE changes,
             keyword, morphs, words, i + 1)

part_mentioned(keyword, words) ==
    \E i \in 1..(Len(words) - 1) :
        /\ keyword = words[i]
        /\ \E p \in 1..Len(COMPOUND_PARTS) : InPartLower(words[i + 1], COMPOUND_PARTS[p])

\* Step 2: for keyword, morphs in COMPOUND_MAP.items()
RECURSIVE S_CompoundLoop(_, _, _)
S_CompoundLoop(changes, table, words) ==
    IF table = <<>> THEN changes
    ELSE LET keyword == Head(table)[1]
             morphs == Head(table)[2]
             next ==
                 IF keyword \notin Range(words) THEN changes
                 ELSE IF part_mentioned(keyword, words)
                 THEN S_KeywordPositions(changes, keyword, morphs, words, 1)
                 ELSE S_PartsLoop(changes, morphs, 1, <<>>)
         IN  S_CompoundLoop(next, Tail(table), words)

\* a faulty variant: a negation word before the modifier is not looked at
S_FeatureAt_IgnoresNegation(changes, words, i, detected_ethnicity) ==
    LET feature_noun == words[i]
        joined == IF i > 2 THEN words[i - 2] \o "-" \o words[i - 1] ELSE ""
        modifier == IF i > 2 /\ joined \in DOMAIN S_FEATURE_MAP[feature_noun]
                    THEN joined ELSE words[i - 1]
        value == IF i > 2 /\ words[i - 2] \in DOMAIN S_INTENSITY_MAP
                 THEN S_INTENSITY_MAP[words[i - 2]]
                 ELSE S_DEFAULT_VALUE
    IN  IF modifier \notin DOMAIN S_FEATURE_MAP[feature_noun]
        THEN [raised |-> FALSE, changes |-> changes]
        ELSE [raised |-> FALSE,
              changes |-> EmitTemplates(changes, S_FEATURE_MAP[feature_noun][modifier],
                                        detected_ethnicity, value)]

\* One feature noun at position i (i > 1): the modifier, its value and its
\* negation, as lines 213 to 248 compute them.  raised is TRUE when the
\* lookup FEATURE_MAP[feature_noun][modifier] of line 241 raises KeyError.
S_FeatureAt(changes, words, i, detected_ethnicity) ==
    LET feature_noun == words[i]
        joined == IF i > 2 THEN words[i - 2] \o "-" \o words[i - 1] ELSE ""
        modifier == IF i > 2 /\ joined \in DOMAIN S_FEATURE_MAP[feature_noun]
                    THEN joined ELSE words[i - 1]
        intense == i > 2 /\ words[i - 2] \in DOMAIN S_INTENSITY_MAP
        is_negated == IF intense THEN i > 3 /\ words[i - 3] \in NEGATION_WORDS
                      ELSE i > 2 /\ words[i - 2] \in NEGATION_WORDS
        antonym == IF modifier \in DOMAIN ANTONYM_MAP THEN ANTONYM_MAP[modifier] ELSE <<>>
        final == IF is_negated /\ antonym # <<>> THEN antonym[1] ELSE modifier
        value == IF is_negated /\ antonym = <<>> THEN 0
                 ELSE IF intense THEN S_INTENSITY_MAP[words[i - 2]]
                 ELSE S_DEFAULT_VALUE
    IN  IF modifier \notin DOMAIN S_FEATURE_MAP[feature_noun]
        THEN [raised |-> FALSE, changes |-> changes]
        ELSE IF final \notin DOMAIN S_FEATURE_MAP[feature_noun]
        THEN [raised |-> TRUE, changes |-> changes]
        ELSE [raised |-> FALSE,
              changes |-> EmitTemplates(changes, S_FEATURE_MAP[feature_noun][final],
                                        detected_ethnicity, value)]

\* Step 3: for i, word in enumerate(words); a KeyError ends the loop
RECURSIVE S_FeatureLoop(_, _, _, _)
S_FeatureLoop(changes, words, i, detected_ethnicity) ==
    IF i > Len(words) THEN [raised |-> FALSE, changes |-> changes]
    ELSE IF words[i] \in DOMAIN S_FEATURE_MAP /\ i > 1
    THEN LET r == S_FeatureAt(changes, words, i, detected_ethnicity)
         IN  IF r.raised THEN r
             ELSE S_FeatureLoop(r.changes, words, i + 1, detected_ethnicity)
    ELSE S_FeatureLoop(changes, words, i + 1, detected_ethnicity)

\* Steps 1 to 3: [raised, changes] for a prompt
\* a faulty variant: the category placeholder takes the keyword of the prompt
S_changes_to_apply_KeywordAsCategory(prompt) ==
    LET words == FindallWords(prompt)
        concept == S_FirstConcept(S_CONCEPT_MAP, words)
        detected_ethnicity == IF concept = <<>> THEN S_DEFAULT_ETHNICITY ELSE concept[1][1]
        step1 == IF concept = <<>> THEN <<>>
                 ELSE <<<<CONCEPT_SHAPE_KEY_PREFIX \o concept[1][1], 10>>>>
        step2 == S_CompoundLoop(step1, COMPOUND_MAP, words)
    IN  S_FeatureLoop(step2, words, 1, detected_ethnicity)

S_changes_to_apply(prompt) ==
    LET words == FindallWords(prompt)
        concept == S_FirstConcept(S_CONCEPT_MAP, words)
        detected_ethnicity == IF concept = <<>> THEN S_DEFAULT_ETHNICITY ELSE concept[1][2]
        step1 == IF concept = <<>> THEN <<>>
                 ELSE <<<<CONCEPT_SHAPE_KEY_PREFIX \o concept[1][2], 10>>>>
        step2 == S_CompoundLoop(step1, COMPOUND_MAP, words)
    IN  S_FeatureLoop(step2, words, 1, detected_ethnicity)

\* the target's shape keys when process_and_apply_prompt returns or raises
process_and_apply_prompt(prompt, shape_keys) ==
    LET cleared == reset_character_shape_keys(shape_keys)
        r == S_changes_to_apply(prompt)
    IN  IF r.raised \/ r.changes = <<>> THEN cleared
        ELSE S_ApplyAll(cleared, r.changes)

\* ------------------------------------------------------ basic_first_script.py
F_DEFAULT_VALUE == 7

F_ethnicity_map ==
    << <<"caucasian", "L1_Caucasian">>, <<"asian", "L1_Asian">>,
       <<"african", "L1_African">> >>

F_feature_map ==
    ("chin" :> (("long" :> <<TG("L2_Caucasian_Chin_SizeZ_max")>>) @@
                ("short" :> <<TG("L2_Caucasian_Chin_SizeZ_min")>>) @@
                ("wide" :> <<TG("L2_Caucasian_Chin_SizeX_max")>>) @@
                ("narrow" :> <<TG("L2_Caucasian_Chin_SizeX_min")>>) @@
                ("prominent" :> <<TG("L2_Caucasian_Chin_Prominence_max")>>))) @@
    ("lips" :> (("full" :> <<TG("L2_Caucasian_Mouth_UpperlipVolume_max"),
                             TG("L2_Caucasian_Mouth_LowerlipVolume_max")>>) @@
                ("thin" :> <<TG("L2_Caucasian_Mouth_UpperlipVolume_min"),
                             TG("L2_Caucasian_Mouth_LowerlipVolume_min")>>))) @@
    ("eyes" :> (("big" :> <<TG("L2__Eyes_Size_max")>>) @@
                ("large" :> <<TG("L2__Eyes_Size_max")>>) @@
                ("small" :> <<TG("L2__Eyes_Size_min")>>) @@
                ("wide" :> <<TG("L2_Caucasian_Eyes_PosX_max")>>) @@
                ("narrow" :> <<TG("L2_Caucasian_Eyes_PosX_min")>>))) @@
    ("nose" :> (("long" :> <<TG("L2_Caucasian_Nose_SizeY_max")>>) @@
                ("short" :> <<TG("L2_Caucasian_Nose_SizeY_min")>>) @@
                ("wide" :> <<TG("L2_Caucasian_Nose_BaseSizeX_max")>>) @@
                ("thin" :> <<TG("L2_Caucasian_Nose_BridgeSizeX_min")>>)))

F_intensity_map ==
    ("slightly" :> 3) @@ ("somewhat" :> 5) @@ ("very" :> 9) @@ ("extremely" :> 10)

\* a word as prompt.lower().split() gives it: the parts joined by their
\* hyphens, the punctuation left on
RECURSIVE JoinParts(_)
JoinParts(parts) ==
    IF Len(parts) = 1 THEN parts[1]
    ELSE parts[1] \o "-" \o JoinParts(Tail(parts))

SplitWords(prompt) == [i \in 1..Len(prompt) |-> JoinParts(LowerWord(prompt[i]))]

\* `keyword in prompt_lower` is a substring test on the whole prompt: the
\* words of the prompts that hold a key of ethnicity_map, with the keys they
\* hold (a word not listed holds none)
F_CONTAINS ==
    ("caucasian" :> {"caucasian", "asian"}) @@ ("asian" :> {"asian"}) @@
    ("african" :> {"african"}) @@ ("east-asian" :> {"asian"})

InPromptLower(keyword, words) ==
    \E i \in 1..Len(words) :
        words[i] \in DOMAIN F_CONTAINS /\ keyword \in F_CONTAINS[words[i]]

\* Part A: for keyword, shape_key in ethnicity_map.items()
RECURSIVE F_EthnicityLoop(_, _, _)
F_EthnicityLoop(changes, table, words) ==
    IF table = <<>> THEN changes
    ELSE F_EthnicityLoop(
             IF InPromptLower(Head(table)[1], words)
             THEN DictPut(changes, Head(table)[2], 10) ELSE changes,
             Tail(table), words)

\* Part B, from word position i on (positions count from 1)
RECURSIVE F_FeatureLoop(_, _, _)
F_FeatureLoop(changes, words, i) ==
    IF i > Len(words) THEN changes
    ELSE LET word == words[i]
             hit == /\ word \in DOMAIN F_feature_map
                    /\ i > 1
                    /\ words[i - 1] \in DOMAIN F_feature_map[word]
             value == IF i > 2 /\ words[i - 2] \in DOMAIN F_intensity_map
                      THEN F_intensity_map[words[i - 2]]
                      ELSE F_DEFAULT_VALUE
         IN  F_FeatureLoop(
                 IF hit THEN EmitTemplates(changes, F_feature_map[word][words[i - 1]],
                                           "", value)
                 ELSE changes,
                 words, i + 1)

\* Step 2: the change set computed for a prompt
F_changes_to_apply(prompt) ==
    LET words == SplitWords(prompt)
    IN  F_FeatureLoop(F_EthnicityLoop(<<>>, F_ethnicity_map, words), words, 1)

\* basic_first_script.py: process_and_apply_prompt; its apply_morph is that
\* of second_script.py
F_process_and_apply_prompt(prompt, shape_keys) ==
    LET cleared == reset_character_shape_keys(shape_keys)
        changes_to_apply == F_changes_to_apply(prompt)
    IN  IF changes_to_apply = <<>> THEN cleared
        ELSE S_ApplyAll(cleared, changes_to_apply)

\* ============================================================== state
VARIABLES
    objects,                     \* bpy.data.objects: <<[name, shape_keys], ...>>
    is_monitoring,               \* blender_bridge.py, the global watch flag
    timers,                      \* registrations of check_for_requests in bpy.app.timers
    bpc,                         \* where the running tick stands ("idle": no tick runs)
    tick,                        \* what the current (or last) tick read, wrote and removed
    reqFile,                     \* REQUEST_FILE
    respFile,                    \* RESPONSE_FILE
    blender_started_once,        \* frontend.py globals
    last_successful_generation,  \* "none", "recent" (under 60 s ago) or "old"
    fpc,                         \* where the frontend's running handler stands
    sent,                        \* the request document the running handler wrote
    http,                        \* the last handler's result
    nreq,                        \* request documents written so far (their timestamps)
    m_variant,                   \* mapper runs: which script is run
    m_prompt,                    \*   the prompt
    m_prior,                     \*   the target's shape_keys before the first run
    m_target,                    \*   the target's shape_keys
    m_changes,                   \*   the change set of the last run: [raised, changes]
    m_first,                     \*   the target's shape_keys after the first run
    m_runs                       \*   runs so far

bridgeVars == <<objects, is_monitoring, timers, bpc, tick>>
fileVars == <<reqFile, respFile>>
frontVars == <<blender_started_once, last_successful_generation, fpc, sent, http, nreq>>
mapperVars == <<m_variant, m_prompt, m_prior, m_target, m_changes, m_first, m_runs>>
vars == <<bridgeVars, fileVars, frontVars, mapperVars>>

\* ------------------------------------------------------ prompts and targets
\* the words prompts are made of
Vocabulary ==
    { <<"a">>, <<"__STATUS_CHECK__">>, <<"Asian">>, <<"woman">>, <<"muscular">>,
      <<"arms">>, <<"long">>, <<"cleft">>, <<"chin">>, <<"eyes">>, <<"very">>,
      <<"not">>, <<"sharp">>, <<"wide", "set">> }

Prompts == UNION {[1..n -> Vocabulary] : n \in 0..MaxPromptLen}

STATUS_CHECK == << <<"__STATUS_CHECK__">> >>

\* a table key as a word of a prompt: its hyphen-separated parts
HYPHENATED ==
    ("east-asian" :> <<"east", "asian">>) @@ ("wide-set" :> <<"wide", "set">>) @@
    ("close-set" :> <<"close", "set">>) @@ ("narrow-set" :> <<"narrow", "set">>) @@
    ("middle-aged" :> <<"middle", "aged">>)

KeyWord(k) == IF k \in DOMAIN HYPHENATED THEN HYPHENATED[k] ELSE <<k>>

\* one concept keyword, alone and before "long chin"
ConceptPrompts ==
    UNION { { <<KeyWord(k)>>, <<KeyWord(k), <<"long">>, <<"chin">> >> } :
            k \in DOMAIN B_CONCEPT_MAP \cup DictKeys(S_CONCEPT_MAP) }

\* "a man with a <m> chin" and "a man with a not <m> chin"
ChinPrompt(m) ==
    << <<"a">>, <<"man">>, <<"with">>, <<"a">>, KeyWord(m), <<"chin">> >>

NotChinPrompt(m) ==
    << <<"a">>, <<"man">>, <<"with">>, <<"a">>, <<"not">>, KeyWord(m), <<"chin">> >>

NegationPrompts ==
    UNION { {ChinPrompt(m), NotChinPrompt(m)} : m \in DOMAIN S_FEATURE_MAP["chin"] }

\* the tables of each script
FeatureMapOf(variant) ==
    IF variant = "second" THEN S_FEATURE_MAP
    ELSE IF variant = "bridge" THEN B_FEATURE_MAP ELSE F_feature_map

IntensityMapOf(variant) ==
    IF variant = "second" THEN S_INTENSITY_MAP
    ELSE IF variant = "bridge" THEN B_INTENSITY_MAP ELSE F_intensity_map

DefaultValueOf(variant) ==
    IF variant = "second" THEN S_DEFAULT_VALUE
    ELSE IF variant = "bridge" THEN B_DEFAULT_VALUE ELSE F_DEFAULT_VALUE

\* "a <m> <f>" and "a <a> <m> <f>"
PlainPrompt(m, f) == << <<"a">>, KeyWord(m), KeyWord(f) >>

IntensePrompt(a, m, f) == << <<"a">>, KeyWord(a), KeyWord(m), KeyWord(f) >>

IntensityPrompts ==
    UNION { UNION { UNION { {PlainPrompt(m, f)} \cup
                            {IntensePrompt(a, m, f) : a \in DOMAIN IntensityMapOf(v)} :
                            m \in DOMAIN FeatureMapOf(v)[f] } :
                    f \in DOMAIN FeatureMapOf(v) } :
            v \in {"second", "bridge", "basic"} }

\* "a very asian face with a long chin, full lips and very small eyes"
ScenarioPrompt ==
    << <<"a">>, <<"very">>, <<"asian">>, <<"face">>, <<"with">>, <<"a">>,
       <<"long">>, <<"chin,">>, <<"full">>, <<"lips">>, <<"and">>, <<"very">>,
       <<"small">>, <<"eyes">> >>

\* two concept keywords, alone and before "long chin"
TwoConceptPrompts ==
    UNION { { <<KeyWord(k1), KeyWord(k2)>>,
              <<KeyWord(k1), KeyWord(k2), <<"long">>, <<"chin">> >> } :
            k1, k2 \in DOMAIN B_CONCEPT_MAP \cup DictKeys(S_CONCEPT_MAP) }

\* a compound keyword alone, and followed by a body-part word or another word
CompoundNextWords ==
    {"abdomen", "arms", "upperarm", "forearm", "chest", "legs", "upperlegs",
     "lowerlegs", "pelvis", "gluteus", "shoulders", "body", "man", "or", "a", "he"}

CompoundPrompts ==
    UNION { { << <<COMPOUND_MAP[i][1]>> >> } \cup
            { << <<COMPOUND_MAP[i][1]>>, <<w>> >> : w \in CompoundNextWords } :
            i \in 1..Len(COMPOUND_MAP) }

\* "<n> <m> <f>" and "<n> <a> <m> <f>" for the negation words n
NegatedPrompt(n, m, f) == << <<n>>, KeyWord(m), KeyWord(f) >>

NegatedIntensePrompt(n, a, m, f) == << <<n>>, <<a>>, KeyWord(m), KeyWord(f) >>

NegatedPrompts ==
    UNION { UNION { UNION { {NegatedPrompt(n, m, f)} \cup
                            {NegatedIntensePrompt(n, a, m, f) :
                                 a \in DOMAIN S_INTENSITY_MAP} :
                            n \in NEGATION_WORDS } :
                    m \in DOMAIN S_FEATURE_MAP[f] } :
            f \in DOMAIN S_FEATURE_MAP }

\* "<a> <n> <m> chin": the intensity word before the negation word
IntenseNegatedPrompt(a, n, m) == << <<a>>, <<n>>, KeyWord(m), <<"chin">> >>

IntenseNegatedPrompts ==
    { IntenseNegatedPrompt(a, n, m) :
        a \in DOMAIN S_INTENSITY_MAP, n \in NEGATION_WORDS,
        m \in DOMAIN S_FEATURE_MAP["chin"] }

\* the prompts the scripts are run on
MapperPrompts ==
    Prompts \cup ConceptPrompts \cup NegationPrompts \cup IntensityPrompts
        \cup {ScenarioPrompt} \cup TwoConceptPrompts \cup CompoundPrompts
        \cup NegatedPrompts \cup IntenseNegatedPrompts

\* the prompts the web form sends in the exchange
GenPrompts == { << <<"long">>, <<"chin">> >>, << <<"woman">> >> }

\* the shape keys of the modelled character
TargetKeys ==
    {"L1_Asian", "L2_Asian_Chin_SizeZ_max", "L2_Caucasian_Chin_SizeZ_max",
     "L2_Caucasian_Chin_Prominence_max", "L2__Arms_UpperarmLength_max"}

\* a target before a run: no shape keys at all, or every key at one value,
\* or the keys at different values
PriorTargets ==
    { <<>> } \cup { <<[k \in TargetKeys |-> v]>> : v \in {0, 4, 10} }
    \cup { <<[k \in TargetKeys |-> IF k = "L1_Asian" THEN 10 ELSE 3]>> }

\* the scene of the exchange: a camera and the male character, no female one
InitialScene ==
    << [name |-> "Camera", shape_keys |-> <<>>],
       [name |-> "mb_male.001", shape_keys |-> <<[k \in TargetKeys |-> 0]>>] >>

\* ---------------------------------------------------------------- documents
\* frontend.py: request_data / test_request
RequestDoc(n, prompt) == [timestamp |-> n, prompt |-> prompt, status |-> "pending"]

\* request documents generate never writes: one json.load rejects, and one
\* that parses but has no prompt field
MalformedDocs == { [unparsable |-> TRUE], [status |-> "pending"] }

\* blender_bridge.py: response_data on success, response_data on a missing
\* character, error_response in the except block
CompletedResponse(prompt) ==
    [timestamp |-> "now", prompt |-> prompt, status |-> "completed",
     message |-> "Character generated successfully in Blender!"]

NoCharacterResponse(prompt) ==
    [timestamp |-> "now", prompt |-> prompt, status |-> "error",
     message |-> "Could not find character object"]

error_response == [timestamp |-> "now", status |-> "error", message |-> "Error"]

NoTick ==
    [read |-> <<>>, failure |-> "none", target |-> 0, before |-> <<>>,
     written |-> <<>>, removed |-> <<>>, returned |-> "none", gone |-> FALSE]

NoHttp == [code |-> 0, details |-> <<>>]

\* ------------------------------------------------------------ initial states
BridgeInit ==
    /\ objects = InitialScene
    /\ is_monitoring = FALSE
    /\ timers = 0
    /\ bpc = "idle"
    /\ tick = NoTick

ExchangeInit ==
    /\ reqFile = <<>>
    /\ respFile = <<>>
    /\ blender_started_once = FALSE
    /\ last_successful_generation = "none"
    /\ fpc = "idle"
    /\ sent = <<>>
    /\ http = NoHttp
    /\ nreq = 0

MapperIdle ==
    /\ m_variant = "none"
    /\ m_prompt = <<>>
    /\ m_prior = <<>>
    /\ m_target = <<>>
    /\ m_changes = [raised |-> FALSE, changes |-> <<>>]
    /\ m_first = <<>>
    /\ m_runs = 0

Init == BridgeInit /\ ExchangeInit /\ MapperIdle

\* ------------------------------------------------- blender_bridge.py: bridge
\* start_bridge_monitoring(): a Blender operator, so never inside a tick
\* a faulty variant: no test of the flag, the timer is registered again
start_bridge_monitoring_Reregisters ==
    /\ bpc = "idle"
    /\ is_monitoring' = TRUE
    /\ timers' = timers + 1
    /\ UNCHANGED <<objects, bpc, tick, fileVars, frontVars, mapperVars>>

start_bridge_monitoring ==
    /\ bpc = "idle"
    /\ is_monitoring' = TRUE
    /\ timers' = IF is_monitoring THEN timers ELSE timers + 1
    /\ UNCHANGED <<objects, bpc, tick, fileVars, frontVars, mapperVars>>

stop_bridge_monitoring ==
    /\ bpc = "idle"
    /\ is_monitoring' = FALSE
    /\ timers' = IF timers > 0 THEN timers - 1 ELSE timers
    /\ UNCHANGED <<objects, bpc, tick, fileVars, frontVars, mapperVars>>

\* what lines 417 to 447 make of a parsed request: the scene after the
\* processing and the response to send
ProcessRequest(doc) ==
    LET analysis == smart_prompt_analysis(doc.prompt)
        char_name == IF analysis.gender = "female" THEN "mb_female" ELSE "mb_male"
        character == get_object(objects, char_name)
    IN  IF character # 0
        THEN [target |-> character,
              objects |-> [objects EXCEPT ![character].shape_keys =
                              process_and_apply_smart_prompt(doc.prompt, @)],
              response |-> CompletedResponse(doc.prompt), failure |-> "none"]
        ELSE [target |-> 0, objects |-> objects,
              response |-> NoCharacterResponse(doc.prompt), failure |-> "target"]

\* check_for_requests, lines 408 to 447: the timer fires; the tick returns
\* at once when the flag is down or no request file exists, else it reads
\* the request and processes it
TickBegin ==
    /\ bpc = "idle"
    /\ timers > 0
    /\ IF ~is_monitoring
       THEN /\ timers' = timers - 1
            /\ UNCHANGED <<objects, is_monitoring, bpc, tick, fileVars>>
       ELSE IF reqFile = <<>>
       THEN UNCHANGED <<bridgeVars, fileVars>>
       ELSE LET doc == reqFile[1] IN
            IF "unparsable" \in DOMAIN doc \/ "prompt" \notin DOMAIN doc
            THEN /\ tick' = [NoTick EXCEPT !.read = <<doc>>, !.returned = "running",
                                !.failure = IF "unparsable" \in DOMAIN doc
                                            THEN "parse" ELSE "prompt"]
                 /\ bpc' = "except"
                 /\ UNCHANGED <<objects, is_monitoring, timers, fileVars>>
            ELSE LET r == ProcessRequest(doc) IN
                 /\ objects' = r.objects
                 /\ tick' = [NoTick EXCEPT !.read = <<doc>>, !.returned = "running",
                                !.failure = r.failure, !.target = r.target,
                                !.before = IF r.target = 0 THEN <<>>
                                           ELSE objects[r.target].shape_keys,
                                !.written = <<r.response>>]
                 /\ bpc' = "respond"
                 /\ UNCHANGED <<is_monitoring, timers, fileVars>>
    /\ UNCHANGED <<frontVars, mapperVars>>

\* lines 450-451: json.dump(response_data) into RESPONSE_FILE
TickRespond ==
    /\ bpc = "respond"
    /\ respFile' = <<tick.written[Len(tick.written)]>>
    /\ bpc' = "remove"
    /\ UNCHANGED <<objects, is_monitoring, timers, tick, reqFile, frontVars, mapperVars>>

\* line 454: os.remove(REQUEST_FILE), which raises when the file is gone;
\* line 471: return 0.5
TickRemove ==
    /\ bpc = "remove"
    /\ IF reqFile # <<>>
       THEN /\ reqFile' = <<>>
            /\ tick' = [tick EXCEPT !.removed = reqFile, !.returned = "0.5",
                                !.gone = (reqFile' = <<>>)]
            /\ bpc' = "idle"
       ELSE /\ tick' = [tick EXCEPT !.failure = "remove"]
            /\ bpc' = "except"
            /\ UNCHANGED reqFile
    /\ UNCHANGED <<objects, is_monitoring, timers, respFile, frontVars, mapperVars>>

\* lines 456 to 465: the except block writes error_response
TickExcept ==
    /\ bpc = "except"
    /\ respFile' = <<error_response>>
    /\ tick' = [tick EXCEPT !.written = Append(@, error_response)]
    /\ bpc' = "cleanup"
    /\ UNCHANGED <<objects, is_monitoring, timers, reqFile, frontVars, mapperVars>>

\* a faulty variant: the except block leaves the request file where it is
TickCleanup_KeepsRequest ==
    /\ bpc = "cleanup"
    /\ reqFile' = reqFile
    /\ tick' = [tick EXCEPT !.returned = "0.5", !.gone = (reqFile' = <<>>)]
    /\ bpc' = "idle"
    /\ UNCHANGED <<objects, is_monitoring, timers, respFile, frontVars, mapperVars>>

\* lines 468 to 471: remove the request file if it exists; return 0.5
TickCleanup ==
    /\ bpc = "cleanup"
    /\ reqFile' = <<>>
    /\ tick' = [tick EXCEPT !.removed = reqFile, !.returned = "0.5",
                                !.gone = (reqFile' = <<>>)]
    /\ bpc' = "idle"
    /\ UNCHANGED <<objects, is_monitoring, timers, respFile, frontVars, mapperVars>>

\* --------------------------------------------------- frontend.py: handlers
\* One handler runs at a time (a single producer).  Each step holds one
\* operation on one exchange file; a wait loop ends in a timeout only after
\* a poll that found no response file.

\* start_blender_with_model(): ok is whether the model file and the
\* executable exist and Popen does not raise
\* what can happen to a launch: the model file or the executable is missing
\* (lines 105 to 109), Popen raises (line 144), or the process is created and
\* then keeps running or exits during the five seconds of line 152
LaunchOutcomes ==
    {"running", "no_model", "no_executable", "popen_raises", "exits_immediately"}

\* the result start_blender_with_model returns: lines 106, 109, 163, 156-160
LaunchResult(outcome) ==
    IF outcome = "no_model"
    THEN [success |-> FALSE, error |-> "Model file not found"]
    ELSE IF outcome = "no_executable"
    THEN [success |-> FALSE, error |-> "Blender executable not found"]
    ELSE IF outcome = "popen_raises"
    THEN [success |-> FALSE, error |-> "Failed to start Blender"]
    ELSE [success |-> TRUE, message |-> "Blender started"]

\* start_blender_with_model, and line 182 of start_blender; the process is
\* never polled, so line 154 is reached whenever Popen returned
Launch(outcome) ==
    /\ blender_started_once' =
           IF LaunchResult(outcome).success THEN TRUE ELSE blender_started_once
    /\ http' = [code |-> IF LaunchResult(outcome).success THEN 200 ELSE 500,
                details |-> <<LaunchResult(outcome)>>]

\* /start-blender, is_blender_responsive() false at line 53
StartBlenderLaunch ==
    /\ fpc = "idle"
    /\ ~blender_started_once
    /\ \E outcome \in LaunchOutcomes : Launch(outcome)
    /\ UNCHANGED <<last_successful_generation, fpc, sent, nreq,
                   bridgeVars, fileVars, mapperVars>>

\* /start-blender, is_blender_responsive() true at line 59
StartBlenderRecent ==
    /\ fpc = "idle"
    /\ blender_started_once
    /\ last_successful_generation = "recent"
    /\ http' = [code |-> 200, details |-> <<>>]
    /\ UNCHANGED <<blender_started_once, last_successful_generation, fpc, sent, nreq,
                   bridgeVars, fileVars, mapperVars>>

\* /start-blender, is_blender_responsive() lines 62 to 70: the probe is written
StartBlenderProbe ==
    /\ fpc = "idle"
    /\ blender_started_once
    /\ last_successful_generation # "recent"
    /\ nreq < MaxRequests
    /\ nreq' = nreq + 1
    /\ sent' = <<RequestDoc(nreq + 1, STATUS_CHECK)>>
    /\ reqFile' = sent'
    /\ fpc' = "probe_wait"
    /\ UNCHANGED <<blender_started_once, last_successful_generation, http,
                   respFile, bridgeVars, mapperVars>>

\* lines 75 to 77: a response file exists; it is removed, Blender is responsive
ProbeAnswered ==
    /\ fpc = "probe_wait"
    /\ respFile # <<>>
    /\ respFile' = <<>>
    /\ http' = [code |-> 200, details |-> <<>>]
    /\ fpc' = "idle"
    /\ UNCHANGED <<blender_started_once, last_successful_generation, sent, nreq,
                   reqFile, bridgeVars, mapperVars>>

\* line 74: three seconds pass without a response file
ProbeTimeout ==
    /\ fpc = "probe_wait"
    /\ respFile = <<>>
    /\ fpc' = "probe_cleanup"
    /\ UNCHANGED <<blender_started_once, last_successful_generation, sent, http, nreq,
                   fileVars, bridgeVars, mapperVars>>

\* lines 81-82: the probe request is removed if it is still there; no status
\* file exists (nothing writes one), so is_blender_responsive() is false and
\* start_blender launches
ProbeCleanup ==
    /\ fpc = "probe_cleanup"
    /\ reqFile' = <<>>
    /\ \E outcome \in LaunchOutcomes : Launch(outcome)
    /\ fpc' = "idle"
    /\ UNCHANGED <<last_successful_generation, sent, nreq, respFile,
                   bridgeVars, mapperVars>>

\* /generate, lines 191 to 198: no prompt, or Blender never started
GenerateRejected ==
    /\ fpc = "idle"
    /\ \E prompt \in GenPrompts \cup {<<>>} :
          /\ prompt = <<>> \/ ~blender_started_once
          /\ http' = [code |-> 400, details |-> <<>>]
    /\ UNCHANGED <<blender_started_once, last_successful_generation, fpc, sent, nreq,
                   bridgeVars, fileVars, mapperVars>>

\* /generate, lines 201 to 209: the request is written
GenerateWrite ==
    /\ fpc = "idle"
    /\ blender_started_once
    /\ nreq < MaxRequests
    /\ \E prompt \in GenPrompts :
          /\ sent' = <<RequestDoc(nreq + 1, prompt)>>
          /\ reqFile' = sent'
    /\ nreq' = nreq + 1
    /\ fpc' = "gen_wait"
    /\ UNCHANGED <<blender_started_once, last_successful_generation, http,
                   respFile, bridgeVars, mapperVars>>

\* lines 216 to 218: a response file exists and is read
GenerateRead ==
    /\ fpc = "gen_wait"
    /\ respFile # <<>>
    /\ http' = [code |-> 0, details |-> respFile]
    /\ fpc' = "gen_got"
    /\ UNCHANGED <<blender_started_once, last_successful_generation, sent, nreq,
                   fileVars, bridgeVars, mapperVars>>

\* a faulty variant: a response with status "error" is returned as an error
GenerateReturn_ChecksStatus ==
    /\ fpc = "gen_got"
    /\ respFile' = <<>>
    /\ last_successful_generation' =
           IF http.details[1].status = "error" THEN last_successful_generation
           ELSE "recent"
    /\ http' = [http EXCEPT !.code = IF http.details[1].status = "error"
                                     THEN 500 ELSE 200]
    /\ fpc' = "idle"
    /\ UNCHANGED <<blender_started_once, sent, nreq, reqFile, bridgeVars, mapperVars>>

\* lines 221 to 230: the response file is removed, success is returned
GenerateReturn ==
    /\ fpc = "gen_got"
    /\ respFile' = <<>>
    /\ last_successful_generation' = "recent"
    /\ http' = [http EXCEPT !.code = 200]
    /\ fpc' = "idle"
    /\ UNCHANGED <<blender_started_once, sent, nreq, reqFile, bridgeVars, mapperVars>>

\* a faulty variant: the timed-out request is withdrawn
GenerateTimeout_RemovesRequest ==
    /\ fpc = "gen_wait"
    /\ respFile = <<>>
    /\ http' = [code |-> 408, details |-> <<>>]
    /\ fpc' = "idle"
    /\ reqFile' = <<>>
    /\ UNCHANGED <<blender_started_once, last_successful_generation, sent, nreq,
                   respFile, bridgeVars, mapperVars>>

\* lines 215, 234 to 236: thirty seconds pass without a response file
GenerateTimeout ==
    /\ fpc = "gen_wait"
    /\ respFile = <<>>
    /\ http' = [code |-> 408, details |-> <<>>]
    /\ fpc' = "idle"
    /\ UNCHANGED <<blender_started_once, last_successful_generation, sent, nreq,
                   fileVars, bridgeVars, mapperVars>>

\* the time status reports: None, or the time of the last generation
last_gen_time == IF last_successful_generation = "none" THEN "none" ELSE "time"

\* a faulty variant: running only while a generation succeeded recently
status_NeedsRecentGeneration ==
    /\ fpc = "idle"
    /\ http' = [code |-> 200,
                details |-> <<[blender_running |->
                                   (blender_started_once
                                        /\ last_successful_generation = "recent"),
                               blender_started_once |-> blender_started_once,
                               last_successful_generation |-> last_gen_time]>>]
    /\ UNCHANGED <<blender_started_once, last_successful_generation, fpc, sent, nreq,
                   bridgeVars, fileVars, mapperVars>>

\* /status
status ==
    /\ fpc = "idle"
    /\ http' = [code |-> 200,
                details |-> <<[blender_running |-> blender_started_once,
                               blender_started_once |-> blender_started_once,
                               last_successful_generation |-> last_gen_time]>>]
    /\ UNCHANGED <<blender_started_once, last_successful_generation, fpc, sent, nreq,
                   bridgeVars, fileVars, mapperVars>>

\* /reset-status
reset_status ==
    /\ fpc = "idle"
    /\ blender_started_once' = FALSE
    /\ last_successful_generation' = "none"
    /\ http' = [code |-> 200, details |-> <<>>]
    /\ UNCHANGED <<fpc, sent, nreq, bridgeVars, fileVars, mapperVars>>

\* sixty seconds pass since the last successful generation (line 58)
SixtySecondsPass ==
    /\ last_successful_generation = "recent"
    /\ last_successful_generation' = "old"
    /\ UNCHANGED <<blender_started_once, fpc, sent, http, nreq,
                   bridgeVars, fileVars, mapperVars>>

\* a request document that generate did not write appears in the exchange
\* directory (section 7 (c) of the specification: a malformed request)
MalformedRequest ==
    /\ nreq < MaxRequests
    /\ nreq' = nreq + 1
    /\ \E doc \in MalformedDocs : reqFile' = <<doc>>
    /\ UNCHANGED <<blender_started_once, last_successful_generation, fpc, sent, http,
                   respFile, bridgeVars, mapperVars>>

\* ------------------------------------------------------------- specifications
Bridge ==
    \/ start_bridge_monitoring
    \/ stop_bridge_monitoring
    \/ TickBegin
    \/ TickRespond
    \/ TickRemove
    \/ TickExcept
    \/ TickCleanup

Frontend ==
    \/ StartBlenderLaunch
    \/ StartBlenderRecent
    \/ StartBlenderProbe
    \/ ProbeAnswered
    \/ ProbeTimeout
    \/ ProbeCleanup
    \/ GenerateRejected
    \/ GenerateWrite
    \/ GenerateRead
    \/ GenerateReturn
    \/ GenerateTimeout
    \/ status
    \/ reset_status
    \/ SixtySecondsPass

\* the exchange between the frontend and the bridge, and nobody else
Next == Bridge \/ Frontend

Spec == Init /\ [][Next]_vars

\* the exchange with malformed request documents arriving too
OpenNext == Next \/ MalformedRequest

OpenSpec == Init /\ [][OpenNext]_vars

\* ------------------------------------------------ the mappers run by hand
\* The __main__ blocks and the test operator: a script is run on a prompt
\* and a character, and may be run again on the same prompt.
MapperInit ==
    /\ BridgeInit
    /\ ExchangeInit
    /\ m_variant \in {"bridge", "second", "basic"}
    /\ m_prompt \in MapperPrompts
    /\ m_prior \in PriorTargets
    /\ m_target = m_prior
    /\ m_changes = [raised |-> FALSE, changes |-> <<>>]
    /\ m_first = <<>>
    /\ m_runs = 0

\* blender_bridge.py: process_and_apply_smart_prompt(prompt, character)
RunBridge ==
    /\ m_variant = "bridge"
    /\ m_runs < MaxRuns
    /\ m_changes' = [raised |-> FALSE, changes |-> B_changes_to_apply(m_prompt)]
    /\ m_target' = process_and_apply_smart_prompt(m_prompt, m_target)
    /\ m_first' = IF m_runs = 0 THEN m_target' ELSE m_first
    /\ m_runs' = m_runs + 1
    /\ UNCHANGED <<m_variant, m_prompt, m_prior, bridgeVars, fileVars, frontVars>>

\* second_script.py: process_and_apply_prompt(prompt, character)
RunSecond ==
    /\ m_variant = "second"
    /\ m_runs < MaxRuns
    /\ m_changes' = S_changes_to_apply(m_prompt)
    /\ m_target' = process_and_apply_prompt(m_prompt, m_target)
    /\ m_first' = IF m_runs = 0 THEN m_target' ELSE m_first
    /\ m_runs' = m_runs + 1
    /\ UNCHANGED <<m_variant, m_prompt, m_prior, bridgeVars, fileVars, frontVars>>

\* basic_first_script.py: process_and_apply_prompt(prompt, character)
RunBasic ==
    /\ m_variant = "basic"
    /\ m_runs < MaxRuns
    /\ m_changes' = [raised |-> FALSE, changes |-> F_changes_to_apply(m_prompt)]
    /\ m_target' = F_process_and_apply_prompt(m_prompt, m_target)
    /\ m_first' = IF m_runs = 0 THEN m_target' ELSE m_first
    /\ m_runs' = m_runs + 1
    /\ UNCHANGED <<m_variant, m_prompt, m_prior, bridgeVars, fileVars, frontVars>>

\* ---------------------------------------- failing writes and removals
\* lines 464-465 inside the except block: open or json.dump raises (the
\* directory is gone, the disk is full, the file is locked); nothing catches
\* it, the exception leaves check_for_requests, and Blender drops a timer
\* whose function raised. The flag of line 374 is not touched.
TickExceptRaises ==
    /\ bpc = "except"
    /\ timers' = timers - 1
    /\ tick' = [tick EXCEPT !.returned = "raised"]
    /\ bpc' = "idle"
    /\ UNCHANGED <<objects, is_monitoring, fileVars, frontVars, mapperVars>>

\* lines 468-469 inside the except block: the request file exists and
\* os.remove raises (the file is locked by its writer, or was removed in
\* between); the exception leaves check_for_requests as above
TickCleanupRaises ==
    /\ bpc = "cleanup"
    /\ reqFile # <<>>
    /\ timers' = timers - 1
    /\ tick' = [tick EXCEPT !.returned = "raised"]
    /\ bpc' = "idle"
    /\ UNCHANGED <<objects, is_monitoring, fileVars, frontVars, mapperVars>>

\* the exchange with file operations that may fail
FaultNext == Next \/ TickExceptRaises \/ TickCleanupRaises

FaultSpec == Init /\ [][FaultNext]_vars

MapperNext == RunBridge \/ RunSecond \/ RunBasic

MapperSpec == MapperInit /\ [][MapperNext]_vars

\* ==================================================================== claims
Last(q) == q[Len(q)]

HasResponseFields(doc) ==
    /\ DOMAIN doc = {"timestamp", "prompt", "status", "message"}
    /\ doc.status \in {"completed", "error"}

\* C1: the response document a generate call reads is the one the bridge
\* produced for the request that call wrote: it echoes the prompt the call
\* sent (no response left over from an earlier exchange is ever read).
C1_ReadsOwnResponse ==
    fpc = "gen_got" =>
        /\ "prompt" \in DOMAIN http.details[1]
        /\ http.details[1].prompt = sent[1].prompt

\* C2: a tick that met a failure while it processed a request (unparsable
\* document, no prompt field, missing character, request file gone at the
\* removal) ends having written a response with status "error" last, with
\* the request file removed, and returning 0.5 so that the timer runs on.
C2_FailureHandled ==
    (bpc = "idle" /\ tick.failure # "none") =>
        /\ tick.written # <<>>
        /\ Last(tick.written).status = "error"
        /\ tick.gone
        /\ tick.returned = "0.5"

C2_Witness ==
    /\ bpc = "idle"
    /\ tick.failure = "prompt"
    /\ tick.returned = "0.5"
    /\ respFile = <<error_response>>
    /\ reqFile = <<>>
    /\ is_monitoring
    /\ timers = 1

\* C3: every request document gets its response before it is deleted: a
\* request document the bridge removes has had a response echoing its prompt
\* written by that tick.
C3_AnsweredBeforeDeleted ==
    tick.removed # <<>> =>
        \E i \in 1..Len(tick.written) :
            /\ "prompt" \in DOMAIN tick.written[i]
            /\ "prompt" \in DOMAIN tick.removed[1]
            /\ tick.written[i].prompt = tick.removed[1].prompt

\* C4: a tick that processes a request whose prompt matches no keyword (the
\* status probe) leaves every shape key of the target character at the value
\* it had before the tick.
C4_ProbeChangesNothing ==
    (/\ tick.target # 0
     /\ B_changes_to_apply(tick.read[1].prompt) = <<>>) =>
        objects[tick.target].shape_keys = tick.before

\* C5: every response document the bridge writes has exactly the fields
\* timestamp, prompt, status and message, the status being "completed" or
\* "error" and the prompt that of the request the tick read.
C5_ResponseFields ==
    \A i \in 1..Len(tick.written) :
        /\ HasResponseFields(tick.written[i])
        /\ "prompt" \in DOMAIN tick.read[1]
        /\ tick.written[i].prompt = tick.read[1].prompt

\* C6: the bridge deletes only the request document it read in that tick, so
\* no request document is removed before the bridge has read it.
C6_RemovesWhatItRead ==
    tick.removed # <<>> => tick.removed = tick.read

\* the change set the last run applied (none when the mapper raised)
AppliedChanges == IF m_changes.raised THEN <<>> ELSE m_changes.changes

\* the value the applier is to leave in key k for change set c
Expected(c, k) == IF DictHas(c, k) THEN Min(10, DictVal(c, k)) ELSE 0

\* C7: after a run on a target that has shape keys, whatever their values
\* were before, every key named in the change set holds min(1.0, its value
\* in the change set) and every other key holds 0.0.
C7_AppliedReplacesAll ==
    (m_runs >= 1 /\ m_target # <<>>) =>
        /\ DOMAIN m_target[1] = DOMAIN m_prior[1]
        /\ \A k \in DOMAIN m_target[1] : m_target[1][k] = Expected(AppliedChanges, k)

C7_Witness ==
    /\ m_runs = 1
    /\ m_target # <<>>
    /\ \E k \in TargetKeys : DictHas(AppliedChanges, k) /\ m_target[1][k] = 7 /\ m_prior[1][k] = 10
    /\ \E k \in TargetKeys : ~DictHas(AppliedChanges, k) /\ m_target[1][k] = 0 /\ m_prior[1][k] = 10

\* C8: running the same prompt on the same target a second time leaves the
\* shape keys as the first run left them.
C8_SecondRunChangesNothing ==
    m_runs >= 2 => m_target = m_first

C8_Witness ==
    /\ m_runs = 2
    /\ m_target # <<>>
    /\ m_target # m_prior
    /\ \E k \in TargetKeys : DictHas(AppliedChanges, k) /\ m_target[1][k] > 0

\* the change set c without its entry at position i
Without(c, i) == SubSeq(c, 1, i - 1) \o SubSeq(c, i + 1, Len(c))

\* C9: a change-set entry whose name is not a shape key of the target is
\* skipped: the target's keys are exactly the keys it had, and their values
\* are those the change set without that entry gives.
C9_MissingNameSkipped ==
    (m_runs >= 1 /\ m_target # <<>>) =>
        \A i \in 1..Len(AppliedChanges) :
            AppliedChanges[i][1] \notin DOMAIN m_prior[1] =>
                /\ DOMAIN m_target[1] = DOMAIN m_prior[1]
                /\ \A k \in DOMAIN m_target[1] :
                       m_target[1][k] = Expected(Without(AppliedChanges, i), k)

\* a name that is not on the target, followed by one that is and was set
C9_Witness ==
    /\ m_runs = 1
    /\ m_target # <<>>
    /\ \E i, j \in 1..Len(AppliedChanges) :
          /\ i < j
          /\ AppliedChanges[i][1] \notin DOMAIN m_target[1]
          /\ AppliedChanges[j][1] \in DOMAIN m_target[1]
          /\ m_target[1][AppliedChanges[j][1]] = AppliedChanges[j][2]
          /\ AppliedChanges[j][2] > 0
          /\ m_prior[1][AppliedChanges[j][1]] = 0

\* the keys of the mapper tables of each script
S_TableKeys ==
    DictKeys(S_CONCEPT_MAP) \cup DictKeys(COMPOUND_MAP) \cup DOMAIN S_FEATURE_MAP

B_TableKeys ==
    DOMAIN B_CONCEPT_MAP \cup DOMAIN B_FEATURE_MAP \cup DOMAIN PERSONALITY_TO_FEATURES
    \cup DOMAIN CONTEXTUAL_FEATURES \cup AGE_MAPPINGS_KEYS

NoTableKey ==
    IF m_variant = "second"
    THEN Range(FindallWords(m_prompt)) \cap S_TableKeys = {}
    ELSE /\ m_variant = "bridge"
         /\ Range(apply_synonyms(extract_keywords(m_prompt))) \cap B_TableKeys = {}

\* C10: a prompt whose tokens hold no key of a mapper table (in the bridge,
\* after the synonyms are replaced) gives the empty change set.
C10_NoKeywordNoChange ==
    (m_runs >= 1 /\ NoTableKey) => (~m_changes.raised /\ m_changes.changes = <<>>)

\* modifier, intensity and negation words alone: no table key among them
C10_Witness ==
    /\ m_runs = 1
    /\ NoTableKey
    /\ m_prompt = << <<"not">>, <<"very">>, <<"long">> >>
    /\ m_changes.changes = <<>>
    /\ m_target # <<>>
    /\ \A k \in TargetKeys : m_target[1][k] = 0 /\ m_prior[1][k] = 10

\* the concept keywords among the tokens the script looks at, by position
ConceptPositions ==
    IF m_variant = "second"
    THEN LET words == FindallWords(m_prompt)
         IN  {i \in 1..Len(words) : words[i] \in DictKeys(S_CONCEPT_MAP)}
    ELSE LET words == apply_synonyms(extract_keywords(m_prompt))
         IN  {i \in 1..Len(words) : words[i] \in DOMAIN B_CONCEPT_MAP}

\* the category the concept table maps the (one) concept keyword to
MappedCategory ==
    IF m_variant = "second"
    THEN LET words == FindallWords(m_prompt)
         IN  DictVal(S_CONCEPT_MAP, words[CHOOSE i \in ConceptPositions : TRUE])
    ELSE LET words == apply_synonyms(extract_keywords(m_prompt))
         IN  B_CONCEPT_MAP[words[CHOOSE i \in ConceptPositions : TRUE]]

\* the templates of a feature table
TemplatesOf(feature_map) ==
    UNION { UNION { Range(feature_map[f][m]) : m \in DOMAIN feature_map[f] } :
            f \in DOMAIN feature_map }

\* the names of the body-part parameters of the compound table
CompoundNames ==
    { Format(COMPOUND_MAP[i][2][j][1], PART, COMPOUND_PARTS[p]) :
        i \in 1..Len(COMPOUND_MAP), j \in {1}, p \in 1..Len(COMPOUND_PARTS) }

\* the parameter names a script can make with category c in the placeholders
NamesWith(variant, c) ==
    { "L1_" \o c } \cup
    ( IF variant = "second"
      THEN { Format(t, ETH, c) : t \in TemplatesOf(S_FEATURE_MAP) } \cup CompoundNames
      ELSE { Format(t, ETH, c) : t \in TemplatesOf(B_FEATURE_MAP) } )

\* C11: a prompt with exactly one concept keyword gives a change set that
\* holds L1_<the keyword's category> at 1.0, and whose other names are the
\* tables' templates with that category in the placeholder.
C11_CategoryActivated ==
    (/\ m_runs >= 1
     /\ m_variant \in {"second", "bridge"}
     /\ ~m_changes.raised
     /\ Cardinality(ConceptPositions) = 1) =>
        /\ DictHas(m_changes.changes, "L1_" \o MappedCategory)
        /\ DictVal(m_changes.changes, "L1_" \o MappedCategory) = 10
        /\ DictKeys(m_changes.changes) \subseteq NamesWith(m_variant, MappedCategory)

\* the parameter of a chin modifier (no category is named in the prompt)
ChinParam(m) == Format(S_FEATURE_MAP["chin"][m][1], ETH, S_DEFAULT_ETHNICITY)

\* what the antonym table gives for m: <<opposite>>, or <<>> for none
Opposite(m) == IF m \in DOMAIN ANTONYM_MAP THEN ANTONYM_MAP[m] ELSE <<>>

\* neg is pos with m's entry replaced: by the opposite's parameter at the
\* same value, or by m's parameter at 0 when m has no opposite
NegatedFrom(pos, neg, m) ==
    /\ DictHas(pos, ChinParam(m))
    /\ Len(neg) = Len(pos)
    /\ \A i \in 1..Len(pos) :
          IF pos[i][1] # ChinParam(m) THEN neg[i] = pos[i]
          ELSE IF Opposite(m) # <<>>
          THEN neg[i] = <<ChinParam(Opposite(m)[1]), pos[i][2]>>
          ELSE neg[i] = <<ChinParam(m), 0>>

\* C12: for a modifier m of the chin, the change set of "a man with a not m
\* chin" is that of "a man with a m chin" with m's parameter replaced by the
\* parameter of m's antonym at the same value, or kept at value 0 when the
\* antonym table gives m no opposite; nothing else differs.
C12_NegationRoundTrip ==
    \A m \in DOMAIN S_FEATURE_MAP["chin"] :
        (m_variant = "second" /\ m_runs >= 1 /\ m_prompt = NotChinPrompt(m)) =>
            /\ ~m_changes.raised
            /\ ~S_changes_to_apply(ChinPrompt(m)).raised
            /\ NegatedFrom(S_changes_to_apply(ChinPrompt(m)).changes, m_changes.changes, m)

C12_Witness ==
    /\ m_variant = "second"
    /\ m_runs = 1
    /\ m_prompt = NotChinPrompt("long")
    /\ m_changes.changes = << <<"L2_Caucasian_Chin_SizeZ_min", 7>> >>
    /\ S_changes_to_apply(ChinPrompt("long")).changes = << <<"L2_Caucasian_Chin_SizeZ_max", 7>> >>

\* the parameters of modifier m of feature noun f, under the default category
ParamsOf(variant, f, m) ==
    {Format(FeatureMapOf(variant)[f][m][j], ETH,
            IF variant = "bridge" THEN B_DEFAULT_ETHNICITY ELSE S_DEFAULT_ETHNICITY) :
     j \in 1..Len(FeatureMapOf(variant)[f][m])}

EmitsAt(variant, f, m, value) ==
    /\ ~m_changes.raised
    /\ \A name \in ParamsOf(variant, f, m) :
           /\ DictHas(m_changes.changes, name)
           /\ DictVal(m_changes.changes, name) = value

\* C13: for every feature noun f, modifier m of f's table and intensity
\* adverb a, the prompt "a <a> <m> <f>" emits m's parameters at the intensity
\* table's value for a, and the prompt "a <m> <f>" emits them at the default
\* value 0.7.
C13_IntensityOverride ==
    m_runs >= 1 =>
        \A f \in DOMAIN FeatureMapOf(m_variant) :
            \A m \in DOMAIN FeatureMapOf(m_variant)[f] :
                /\ m_prompt = PlainPrompt(m, f) =>
                       EmitsAt(m_variant, f, m, DefaultValueOf(m_variant))
                /\ \A a \in DOMAIN IntensityMapOf(m_variant) :
                       m_prompt = IntensePrompt(a, m, f) =>
                           EmitsAt(m_variant, f, m, IntensityMapOf(m_variant)[a])

\* the parameters of the scenario, the category placeholder filled with Asian
ScenarioParams(f, m) ==
    {Format(FeatureMapOf(m_variant)[f][m][j], ETH, "Asian") :
     j \in 1..Len(FeatureMapOf(m_variant)[f][m])}

AllAt(names, value) ==
    \A name \in names :
        /\ DictHas(m_changes.changes, name)
        /\ DictVal(m_changes.changes, name) = value

ScenarioRan == m_runs >= 1 /\ m_prompt = ScenarioPrompt

\* C14 as stated: the scenario prompt gives the Asian activation at 1.0, the
\* chin-length parameter at the value of "very", the two lip-volume
\* parameters at the default value and the eye-size parameter at the value
\* of "very".
C14_ScenarioAsStated ==
    ScenarioRan =>
        /\ ~m_changes.raised
        /\ AllAt({"L1_Asian"}, 10)
        /\ AllAt(ScenarioParams("chin", "long"), IntensityMapOf(m_variant)["very"])
        /\ Cardinality(ScenarioParams("lips", "full")) = 2
        /\ AllAt(ScenarioParams("lips", "full"), DefaultValueOf(m_variant))
        /\ AllAt(ScenarioParams("eyes", "small"), IntensityMapOf(m_variant)["very"])

\* C14 amended: the scenario prompt gives exactly the Asian activation at
\* 1.0, the two lip-volume parameters at the default value, the eye-size
\* parameter at the value of "very" and, in second_script.py and
\* blender_bridge.py, the chin-length parameter at the default value (the
\* word two places before "chin" is "a"); basic_first_script.py emits no chin
\* parameter.
C14_Scenario ==
    ScenarioRan =>
        /\ ~m_changes.raised
        /\ AllAt({"L1_Asian"}, 10)
        /\ Cardinality(ScenarioParams("lips", "full")) = 2
        /\ AllAt(ScenarioParams("lips", "full"), DefaultValueOf(m_variant))
        /\ AllAt(ScenarioParams("eyes", "small"), IntensityMapOf(m_variant)["very"])
        /\ IF m_variant = "basic"
           THEN DictKeys(m_changes.changes) =
                    {"L1_Asian"} \cup ScenarioParams("lips", "full")
                        \cup ScenarioParams("eyes", "small")
           ELSE /\ AllAt(ScenarioParams("chin", "long"), DefaultValueOf(m_variant))
                /\ DictKeys(m_changes.changes) =
                       {"L1_Asian"} \cup ScenarioParams("chin", "long")
                           \cup ScenarioParams("lips", "full")
                           \cup ScenarioParams("eyes", "small")

C14_Witness ==
    /\ ScenarioRan
    /\ m_variant = "second"
    /\ m_changes.changes =
           << <<"L1_Asian", 10>>, <<"L2_Asian_Chin_SizeZ_max", 7>>,
              <<"L2_Asian_Mouth_UpperlipVolume_max", 7>>,
              <<"L2_Asian_Mouth_LowerlipVolume_max", 7>>,
              <<"L2__Eyes_Size_min", 9>> >>

\* generate returns from its wait without having read a response
GivesUp == fpc = "gen_wait" /\ fpc' = "idle"

\* C15: when no response document appears within the wait, generate returns
\* the timeout result 408, which no other step returns and which is neither
\* the error result 500 nor success 200; it leaves the request document (and
\* everything else in the exchange directory) as it is, and changes neither
\* the launched flag nor the time of the last successful generation.
C15_TimeoutLeavesRequest ==
    [][ /\ GivesUp =>
              /\ respFile = <<>>
              /\ http' = [code |-> 408, details |-> <<>>]
              /\ http'.code \notin {200, 500}
              /\ reqFile' = reqFile
              /\ respFile' = respFile
              /\ blender_started_once' = blender_started_once
              /\ last_successful_generation' = last_successful_generation
        /\ (http' # http /\ http'.code = 408) => GivesUp ]_vars

\* generate has returned 408 and the bridge has since read that request and
\* written its response
C15_Witness ==
    /\ fpc = "idle"
    /\ http.code = 408
    /\ sent # <<>>
    /\ tick.read = sent
    /\ respFile = <<CompletedResponse(sent[1].prompt)>>

\* a call of start-blender launches, with the given outcome
Launches(outcome) ==
    /\ fpc = "idle" \/ fpc = "probe_cleanup"
    /\ fpc' = "idle"
    /\ Launch(outcome)

\* C16: every launch failure (model file missing, executable missing, process
\* creation raising, the launched process exiting at once) makes start-blender
\* return a failure result with diagnostic text and leaves the launched flag
\* unchanged.
C16_LaunchFailureReported ==
    [][ \A outcome \in LaunchOutcomes \ {"running"} :
            Launches(outcome) =>
                /\ http'.code = 500
                /\ ~http'.details[1].success
                /\ "error" \in DOMAIN http'.details[1]
                /\ blender_started_once' = blender_started_once ]_vars

\* a launch that start_blender_with_model reports as successful
LaunchSucceeds ==
    \E outcome \in LaunchOutcomes :
        Launches(outcome) /\ LaunchResult(outcome).success

\* a step of a generate call
GenerateStep ==
    \/ GenerateRejected
    \/ GenerateWrite
    \/ GenerateRead
    \/ GenerateReturn
    \/ GenerateTimeout

\* C17: the launched flag becomes true only by a launch that succeeded and
\* false only by reset-status; a successful launch sets it, reset-status
\* clears it and the time of the last successful generation, generate never
\* changes it, and status reports blender_running equal to it: so status
\* reports true exactly when a launch has succeeded since the last reset.
C17_StatusTracksLaunch ==
    [][ /\ (blender_started_once' # blender_started_once) =>
               IF blender_started_once' THEN LaunchSucceeds ELSE reset_status
        /\ LaunchSucceeds => blender_started_once'
        /\ reset_status =>
               (~blender_started_once' /\ last_successful_generation' = "none")
        /\ GenerateStep => blender_started_once' = blender_started_once
        /\ status =>
               /\ http'.details[1].blender_running = blender_started_once
               /\ blender_started_once' = blender_started_once ]_vars

\* status has reported blender_running = true although no generation has
\* succeeded since the launch
C17_Witness ==
    /\ http.code = 200
    /\ http.details # <<>>
    /\ "blender_running" \in DOMAIN http.details[1]
    /\ http.details[1].blender_running
    /\ http.details[1].last_successful_generation = "none"
    /\ blender_started_once

\* the bridge is Watching (or Processing) when the flag is up, Idle when not
Watching == is_monitoring

\* a step of a tick that works on a request: the tick record, the position
\* of the callback or the scene changes
TickWorks == tick' # tick \/ bpc' # bpc \/ objects' # objects

\* C18: at most one recurring callback is registered; start while Watching
\* leaves the registration as it is; a tick works on a request only while
\* Watching, and returns to Watching; while the bridge is Idle no callback
\* is registered, no tick works, and a pending request document is removed
\* by nobody but the frontend's own cleanup of its probe.
C18_BridgeStateMachine ==
    [][ /\ timers' <= 1
        /\ (Watching /\ Watching') => timers' = timers
        /\ TickWorks => (Watching /\ Watching' /\ timers = 1 /\ timers' = 1)
        /\ ~Watching' => (timers' = 0 /\ bpc' = "idle")
        /\ (~Watching /\ ~Watching') => ~TickWorks
        /\ (~Watching /\ reqFile # <<>> /\ reqFile' = <<>>) =>
               fpc = "probe_cleanup" ]_vars

\* the bridge has processed a request, was stopped, and a later request is
\* pending, unread
C18_Witness ==
    /\ ~is_monitoring
    /\ timers = 0
    /\ tick.read # <<>>
    /\ "timestamp" \in DOMAIN tick.read[1]
    /\ reqFile # <<>>
    /\ reqFile[1].timestamp > tick.read[1].timestamp

\* C19: after any sequence of start, stop and tick calls, with processing
\* that fails and with writes of the error response and removals of the
\* request that fail, is_monitoring is true exactly when the recurring
\* callback is registered.
C19_FlagMatchesTimer == is_monitoring <=> timers = 1

\* the categories a script can put in the placeholder: the values of its
\* concept table and its default category
Categories(variant) ==
    IF variant = "second"
    THEN {S_CONCEPT_MAP[i][2] : i \in 1..Len(S_CONCEPT_MAP)} \cup {S_DEFAULT_ETHNICITY}
    ELSE {B_CONCEPT_MAP[k] : k \in DOMAIN B_CONCEPT_MAP} \cup {B_DEFAULT_ETHNICITY}

\* every name the static tables of a script can give
S_TableNames == UNION {NamesWith("second", c) : c \in Categories("second")}

B_TableNames == UNION {NamesWith("bridge", c) : c \in Categories("bridge")}

TableNames(variant) == IF variant = "second" THEN S_TableNames ELSE B_TableNames

\* C20: every parameter name of the change set is a template of the static
\* tables with the category placeholder filled by a value of the concept
\* table or the default category and the body-part placeholder by an entry
\* of the body-part list, and every value lies in [0, 1].
C20_NamesFromTemplates ==
    (m_runs >= 1 /\ m_variant \in {"second", "bridge"}) =>
        \A i \in 1..Len(m_changes.changes) :
            /\ m_changes.changes[i][1] \in TableNames(m_variant)
            /\ m_changes.changes[i][2] \in 0..10

\* a prompt whose concept keyword differs from the category it maps to has
\* given an activation and a feature parameter named after the category
C20_Witness ==
    /\ m_runs >= 1
    /\ m_variant = "second"
    /\ m_prompt = << <<"elf">>, <<"long">>, <<"chin">> >>
    /\ m_changes.changes = << <<"L1_Elf", 10>>, <<"L2_Elf_Chin_SizeZ_max", 7>> >>

\* the tokens a script scans for concept keywords, and the category of one
ConceptTokens ==
    IF m_variant = "second" THEN FindallWords(m_prompt)
    ELSE apply_synonyms(extract_keywords(m_prompt))

CategoryOf(keyword) ==
    IF m_variant = "second" THEN DictVal(S_CONCEPT_MAP, keyword)
    ELSE B_CONCEPT_MAP[keyword]

\* the category of the concept keyword that occurs first in the tokens
FirstOccurring ==
    CategoryOf(ConceptTokens[CHOOSE i \in ConceptPositions :
                                 \A j \in ConceptPositions : i <= j])

SeveralCategories ==
    Cardinality({CategoryOf(ConceptTokens[i]) : i \in ConceptPositions}) >= 2

\* the activation names of a script
ActivationNames(variant) == {"L1_" \o c : c \in Categories(variant)}

\* C21: a prompt with concept keywords of several categories gives the
\* category of the keyword that occurs first among its tokens: exactly one
\* activation is emitted, that of this category, and every templated name
\* carries this category.
C21_FirstOccurrence ==
    (m_runs >= 1 /\ m_variant \in {"second", "bridge"} /\ ~m_changes.raised
        /\ SeveralCategories) =>
        /\ DictKeys(m_changes.changes) \cap ActivationNames(m_variant) =
               {"L1_" \o FirstOccurring}
        /\ DictKeys(m_changes.changes) \subseteq NamesWith(m_variant, FirstOccurring)

\* the body parts a word names: the part's name or one of the words it is
\* made of, in lower case
NAMED_PARTS ==
    ("abdomen" :> {"Abdomen"}) @@ ("arms" :> {"Arms_Upperarm", "Arms_Forearm"}) @@
    ("upperarm" :> {"Arms_Upperarm"}) @@ ("forearm" :> {"Arms_Forearm"}) @@
    ("chest" :> {"Chest"}) @@ ("legs" :> {"Legs_Upperlegs", "Legs_Lowerlegs"}) @@
    ("upperlegs" :> {"Legs_Upperlegs"}) @@ ("lowerlegs" :> {"Legs_Lowerlegs"}) @@
    ("pelvis" :> {"Pelvis_Gluteus"}) @@ ("gluteus" :> {"Pelvis_Gluteus"}) @@
    ("shoulders" :> {"Shoulders"})

\* the parts a compound keyword is to be emitted for when followed by w
PartsFor(w) ==
    IF w \in DOMAIN NAMED_PARTS THEN NAMED_PARTS[w] ELSE Range(COMPOUND_PARTS)

\* keyword i of COMPOUND_MAP is emitted for exactly these parts, at its value
CompoundEmittedFor(i, parts) ==
    /\ ~m_changes.raised
    /\ \A p \in Range(COMPOUND_PARTS) :
           LET name == Format(COMPOUND_MAP[i][2][1][1], PART, p)
           IN  IF p \in parts
               THEN /\ DictHas(m_changes.changes, name)
                    /\ DictVal(m_changes.changes, name) = COMPOUND_MAP[i][2][1][2]
               ELSE ~DictHas(m_changes.changes, name)

\* C22: a compound keyword immediately followed by a word that names a body
\* part is emitted for that part only (for the entries of the list the word
\* names); followed by any other word, or by nothing, it is emitted for every
\* entry of the body-part list; each at the value of the table.
C22_CompoundParts ==
    (m_runs >= 1 /\ m_variant = "second") =>
        \A i \in 1..Len(COMPOUND_MAP) :
            /\ m_prompt = << <<COMPOUND_MAP[i][1]>> >> =>
                   CompoundEmittedFor(i, Range(COMPOUND_PARTS))
            /\ \A w \in CompoundNextWords :
                   m_prompt = << <<COMPOUND_MAP[i][1]>>, <<w>> >> =>
                       CompoundEmittedFor(i, PartsFor(w))

\* the negation of modifier m of feature noun f has been emitted with the
\* given value: the opposite of m, from f's table, when the antonym table
\* has one, else m itself at 0
NegationEmitted(f, m, value) ==
    /\ ~m_changes.raised
    /\ IF Opposite(m) # <<>>
       THEN /\ Opposite(m)[1] \in DOMAIN S_FEATURE_MAP[f]
            /\ EmitsAt("second", f, Opposite(m)[1], value)
       ELSE EmitsAt("second", f, m, 0)

\* C23: for every feature noun f and modifier m of its table, a prompt with
\* a negation word immediately before m, or immediately before an intensity
\* word before m, is analysed without an error, and emits the templates of
\* the antonym of m from f's table when there is an antonym, and those of m
\* at 0 when there is none.
C23_NegationNeverRaises ==
    (m_runs >= 1 /\ m_variant = "second") =>
        \A f \in DOMAIN S_FEATURE_MAP :
            \A m \in DOMAIN S_FEATURE_MAP[f] :
                \A n \in NEGATION_WORDS :
                    /\ m_prompt = NegatedPrompt(n, m, f) =>
                           NegationEmitted(f, m, S_DEFAULT_VALUE)
                    /\ \A a \in DOMAIN S_INTENSITY_MAP :
                           m_prompt = NegatedIntensePrompt(n, a, m, f) =>
                               NegationEmitted(f, m, S_INTENSITY_MAP[a])

\* C24: with a negation word immediately before the modifier and an
\* intensity word immediately before the negation word ("very not long
\* chin"), the negation is applied and the value emitted is that of the
\* intensity word, not the default.
C24_IntensityBeforeNegation ==
    (m_runs >= 1 /\ m_variant = "second") =>
        \A a \in DOMAIN S_INTENSITY_MAP :
            \A n \in NEGATION_WORDS :
                \A m \in DOMAIN S_FEATURE_MAP["chin"] :
                    m_prompt = IntenseNegatedPrompt(a, n, m) =>
                        NegationEmitted("chin", m, S_INTENSITY_MAP[a])

\* C25: the change set the bridge computes for a prompt is the change set
\* second_script.py (the mapper of section 4.1) computes for it: the same
\* names with the same values.
C25_BridgeAgreesWithMapper ==
    (m_runs >= 1 /\ m_variant = "bridge") =>
        /\ ~S_changes_to_apply(m_prompt).raised
        /\ Range(m_changes.changes) = Range(S_changes_to_apply(m_prompt).changes)

\* generate leaves its wait, and generate returns what it read
LeavesWait == fpc = "gen_wait" /\ fpc' # "gen_wait"

ReturnsRead == fpc = "gen_got" /\ fpc' = "idle"

\* C26: when a response document is there as generate leaves its wait,
\* generate reads it, and then returns it as a success (code 200) whatever
\* its status field is, records the time of the last successful generation
\* and removes the response file.
C26_AnyResponseIsSuccess ==
    [][ /\ (LeavesWait /\ respFile # <<>>) =>
               (fpc' = "gen_got" /\ http'.details = respFile)
        /\ ReturnsRead =>
               /\ http'.code = 200
               /\ http'.details = http.details
               /\ last_successful_generation' = "recent"
               /\ respFile' = <<>> ]_vars

\* generate has returned success with a response whose status is "error"
C26_Witness ==
    /\ fpc = "idle"
    /\ http.code = 200
    /\ http.details # <<>>
    /\ "status" \in DOMAIN http.details[1]
    /\ http.details[1].status = "error"
    /\ last_successful_generation = "recent"

\* the change set is exactly the parameters of modifier m of f at the default
OnlyAtDefault(f, m) ==
    /\ EmitsAt("second", f, m, S_DEFAULT_VALUE)
    /\ DictKeys(m_changes.changes) = ParamsOf("second", f, m)

\* C27: in second_script.py a feature matched through a modifier rejoined
\* from two tokens (wide-set, narrow-set) is emitted at the default value and
\* is not negated: an intensity word, a negation word, or a negation word and
\* an intensity word before the modifier change neither the parameter nor
\* its value.
C27_HyphenatedAtDefault ==
    (m_runs >= 1 /\ m_variant = "second") =>
        \A f \in DOMAIN S_FEATURE_MAP :
            \A m \in DOMAIN S_FEATURE_MAP[f] \cap DOMAIN HYPHENATED :
                /\ m_prompt = PlainPrompt(m, f) => OnlyAtDefault(f, m)
                /\ \A a \in DOMAIN S_INTENSITY_MAP :
                       /\ m_prompt = IntensePrompt(a, m, f) => OnlyAtDefault(f, m)
                       /\ \A n \in NEGATION_WORDS :
                              m_prompt = NegatedIntensePrompt(n, a, m, f) =>
                                  OnlyAtDefault(f, m)
                /\ \A n \in NEGATION_WORDS :
                       m_prompt = NegatedPrompt(n, m, f) => OnlyAtDefault(f, m)

\* "not very wide-set eyes" has given the wide-set parameter at the default
C27_Witness ==
    /\ m_runs >= 1
    /\ m_variant = "second"
    /\ m_prompt = NegatedIntensePrompt("not", "very", "wide-set", "eyes")
    /\ m_changes.changes = << <<"L2_Caucasian_Eyes_PosX_max", 7>> >>

====
